---- MODULE Spec2Model ----
(***************************************************************************)
(* The Order aggregate of orders-service                                   *)
(* (internal/domain/entities/orders.go): an order, its line items and its  *)
(* status state machine, driven by an arbitrary caller.                    *)
(*                                                                         *)
(* Strings that are trimmed by the code are sequences of characters, so    *)
(* that strings.TrimSpace is computed and not assumed.  float64 amounts    *)
(* are integers (whole currency units): on the small whole values used     *)
(* here float64 multiplication and addition are exact.  time.Time is a     *)
(* natural number read from a clock that never goes backwards.             *)
(***************************************************************************)
EXTENDS Integers, Sequences, FiniteSets, TLC

\* ---------------------------------------------------------------- bounds
\* last instant of the clock
MaxTime == 1
\* largest quantity an item is allowed to reach in the explored runs
MaxQuantity == 3

\* ---------------------------------------------------------------- inputs
CustomerIDs == {0, 1}
ProductIDs == {0, 1, 2}
Quantities == {0, 1, 2}

\* SKU, name and unit price of the products that are ordered
ValidItemArgs ==
  {<<<<" ", "a", " ">>, <<"n", "\t">>, 2>>,
   <<<<"b">>, <<" ", "m">>, 3>>}

\* the AddItem calls: productID, productSKU, productName, quantity, unitPrice.
\* Every valid combination, one call per argument that can be invalid, and
\* one call with every argument invalid.
AddItemInputs ==
  {<<p, a[1], a[2], q, a[3]>> :
     p \in ProductIDs \ {0}, q \in Quantities \ {0}, a \in ValidItemArgs}
  \cup {<<0, <<" ", "a", " ">>, <<"n", "\t">>, 1, 2>>,
        <<1, <<" ">>, <<"n", "\t">>, 1, 2>>,
        <<1, <<"b">>, <<>>, 1, 3>>,
        <<1, <<"b">>, <<" ", "m">>, 0, 3>>,
        <<2, <<" ", "a", " ">>, <<"n", "\t">>, 1, 0>>,
        <<0, <<>>, <<"\t">>, -1, -2>>}

\* the arguments the factory functions and the item validation are tried on:
\* every combination of a valid and an invalid value of each argument
\* the ids the orders table hands out, and the ids requests ask for
OrderIDs == {1}
RequestOrderIDs == {1}
\* the items of the use-case requests: two valid ones and one without quantity
UseCaseItems ==
  {<<1, <<"a">>, <<"n">>, 1, 2>>,
   <<2, <<" ", "b">>, <<"m">>, 2, 3>>,
   <<1, <<"a">>, <<"n">>, 0, 2>>}
\* the create requests, as customer id and items
CreateRequests ==
  {<<0, <<>>>>,
   <<1, <<>>>>,
   <<1, <<<<1, <<"a">>, <<"n">>, 1, 2>>>>>>,
   <<1, <<<<2, <<" ", "b">>, <<"m">>, 2, 3>>, <<1, <<"a">>, <<"n">>, 1, 2>>>>>>,
   <<1, <<<<1, <<"a">>, <<"n">>, 1, 2>>, <<2, <<>>, <<"m">>, 2, 3>>>>>>,
   <<1, <<<<1, <<"a">>, <<"n">>, 1, 2>>, <<1, <<"a">>, <<"n">>, 2, 5>>>>>>}
UseCaseProductIDs == {1, 2, 3}
UseCaseQuantities == {0, 2}
TargetStatuses ==
  {"pending", "confirmed", "processing", "shipped", "delivered", "cancelled",
   "refunded", "invalid_status"}
\* the page and page size of the list requests
Pagings ==
  {<<-1, 0>>, <<0, 1>>, <<1, 100>>, <<0, 101>>, <<1, 1>>, <<-1, 10>>,
   <<0, 2>>, <<1, 2>>}
\* the ids the orders table hands out when several orders are listed
ListingIDs == {1, 2}
FactoryCustomerIDs == {0, 1, 2}
ValidateProductIDs == {0, 1}
ValidateSKUs == {<<>>, <<" ", "\t">>, <<" ", "a", " ">>}
ValidateNames == {<<"\t">>, <<"n", "\t">>}
ValidateQuantities == {-1, 0, 1}
ValidateUnitPrices == {-2, 0, 2}

\* ---------------------------------------------------------------- statuses
OrderStatusPending == "pending"
OrderStatusConfirmed == "confirmed"
OrderStatusProcessing == "processing"
OrderStatusShipped == "shipped"
OrderStatusDelivered == "delivered"
OrderStatusCancelled == "cancelled"
OrderStatusRefunded == "refunded"

OrderStatus ==
  {OrderStatusPending, OrderStatusConfirmed, OrderStatusProcessing,
   OrderStatusShipped, OrderStatusDelivered, OrderStatusCancelled,
   OrderStatusRefunded}

\* ---------------------------------------------------------------- errors
\* the nil error, and the messages of the errors the aggregate returns
NoErr == "nil"
ErrCustomerID == "customer ID is required"
ErrNotModifiable == "order cannot be modified in current status"
ErrProductID == "product ID is required"
ErrProductSKU == "product SKU is required"
ErrProductName == "product name is required"
ErrQuantity == "quantity must be positive"
ErrUnitPrice == "unit price must be positive"
ErrItemNotFoundInOrder == "item not found in order"
ErrItemNotFound == "item not found"
ErrOnlyPending == "only pending orders can be confirmed"
ErrEmptyOrder == "cannot confirm empty order"
ErrCannotCancel == "order cannot be cancelled in current status"
ErrOnlyConfirmed == "only confirmed orders can be moved to processing"
ErrOnlyProcessing == "only processing orders can be shipped"
ErrOnlyShipped == "only shipped orders can be delivered"
ErrOnlyDelivered == "only delivered orders can be refunded"

\* ---------------------------------------------------------------- strings
\* the white space strings.TrimSpace removes (the two that occur here)
WhiteSpace == {" ", "\t"}

RECURSIVE TrimLeft(_)
TrimLeft(s) ==
  IF s # <<>> /\ Head(s) \in WhiteSpace THEN TrimLeft(Tail(s)) ELSE s

RECURSIVE TrimRight(_)
TrimRight(s) ==
  IF s # <<>> /\ s[Len(s)] \in WhiteSpace
  THEN TrimRight(SubSeq(s, 1, Len(s) - 1))
  ELSE s

TrimSpace(s) == TrimRight(TrimLeft(s))

\* ---------------------------------------------------------------- items
\* index of the first item with the product id, 0 when there is none
\* (the "for i := range o.Items" loops return at the first match)
RECURSIVE IndexFrom(_, _, _)
IndexFrom(items, productID, i) ==
  IF i > Len(items) THEN 0
  ELSE IF items[i].ProductID = productID THEN i
  ELSE IndexFrom(items, productID, i + 1)

IndexOf(items, productID) == IndexFrom(items, productID, 1)

\* the loop of CalculateTotal: total += item.TotalPrice
RECURSIVE SumTotalPrice(_)
SumTotalPrice(items) ==
  IF items = <<>> THEN 0
  ELSE SumTotalPrice(SubSeq(items, 1, Len(items) - 1))
       + items[Len(items)].TotalPrice

\* the loop of GetTotalQuantity: total += item.Quantity
RECURSIVE SumQuantity(_)
SumQuantity(items) ==
  IF items = <<>> THEN 0
  ELSE SumQuantity(SubSeq(items, 1, Len(items) - 1))
       + items[Len(items)].Quantity

\* validateOrderItem that checks the numbers before the strings
validateOrderItemNumbersFirst(productID, productSKU, productName, quantity, unitPrice) ==
  IF productID = 0 THEN ErrProductID
  ELSE IF quantity <= 0 THEN ErrQuantity
  ELSE IF unitPrice <= 0 THEN ErrUnitPrice
  ELSE IF TrimSpace(productSKU) = <<>> THEN ErrProductSKU
  ELSE IF TrimSpace(productName) = <<>> THEN ErrProductName
  ELSE NoErr

validateOrderItem(productID, productSKU, productName, quantity, unitPrice) ==
  IF productID = 0 THEN ErrProductID
  ELSE IF TrimSpace(productSKU) = <<>> THEN ErrProductSKU
  ELSE IF TrimSpace(productName) = <<>> THEN ErrProductName
  ELSE IF quantity <= 0 THEN ErrQuantity
  ELSE IF unitPrice <= 0 THEN ErrUnitPrice
  ELSE NoErr

\* ---------------------------------------------------------------- the aggregate
\* Every method is an operator from the order (and the time time.Now()
\* returns) to the order after the call and the returned error.

\* isImmutable that forgets the delivered status
isImmutableNoDelivered(o) ==
  \/ o.Status = OrderStatusCancelled
  \/ o.Status = OrderStatusRefunded

isImmutable(o) ==
  \/ o.Status = OrderStatusCancelled
  \/ o.Status = OrderStatusDelivered
  \/ o.Status = OrderStatusRefunded

\* CanBeCancelled that forgets the processing status
CanBeCancelledNotProcessing(o) ==
  \/ o.Status = OrderStatusPending
  \/ o.Status = OrderStatusConfirmed

\* CanBeCancelled that still allows a shipped order
CanBeCancelledShipped(o) ==
  \/ o.Status = OrderStatusPending
  \/ o.Status = OrderStatusConfirmed
  \/ o.Status = OrderStatusProcessing
  \/ o.Status = OrderStatusShipped

CanBeCancelled(o) ==
  \/ o.Status = OrderStatusPending
  \/ o.Status = OrderStatusConfirmed
  \/ o.Status = OrderStatusProcessing

\* CalculateTotal that returns the sum without storing it
CalculateTotalNotStored(o) ==
  [order |-> o, total |-> SumTotalPrice(o.Items)]

\* CalculateTotal that starts from the stored amount instead of 0
CalculateTotalAccumulates(o) ==
  [order |-> [o EXCEPT !.TotalAmount = o.TotalAmount + SumTotalPrice(o.Items)],
   total |-> o.TotalAmount + SumTotalPrice(o.Items)]
CalculateTotal(o) ==
  [order |-> [o EXCEPT !.TotalAmount = SumTotalPrice(o.Items)],
   total |-> SumTotalPrice(o.Items)]

\* AddItem that puts a new item at the head of the list
AddItemPrepends(o, productID, productSKU, productName, quantity, unitPrice, t) ==
  IF isImmutable(o) THEN [order |-> o, err |-> ErrNotModifiable]
  ELSE IF validateOrderItem(productID, productSKU, productName,
                            quantity, unitPrice) # NoErr
  THEN [order |-> o,
        err |-> validateOrderItem(productID, productSKU, productName,
                                  quantity, unitPrice)]
  ELSE IF IndexOf(o.Items, productID) # 0
  THEN LET i == IndexOf(o.Items, productID)
           q == o.Items[i].Quantity + quantity
           merged == [o EXCEPT !.Items[i].Quantity = q,
                               !.Items[i].TotalPrice =
                                  q * o.Items[i].UnitPrice]
       IN [order |-> [CalculateTotal(merged).order EXCEPT !.UpdatedAt = t],
           err |-> NoErr]
  ELSE LET newItem == [ID |-> 0,
                       ProductID |-> productID,
                       ProductSKU |-> TrimSpace(productSKU),
                       ProductName |-> TrimSpace(productName),
                       Quantity |-> quantity,
                       UnitPrice |-> unitPrice,
                       TotalPrice |-> quantity * unitPrice]
           appended == [o EXCEPT !.Items = <<newItem>> \o o.Items]
       IN [order |-> [CalculateTotal(appended).order EXCEPT !.UpdatedAt = t],
           err |-> NoErr]

\* AddItem that never looks for an existing item and always appends
AddItemAlwaysAppends(o, productID, productSKU, productName, quantity, unitPrice, t) ==
  IF isImmutable(o) THEN [order |-> o, err |-> ErrNotModifiable]
  ELSE IF validateOrderItem(productID, productSKU, productName,
                            quantity, unitPrice) # NoErr
  THEN [order |-> o,
        err |-> validateOrderItem(productID, productSKU, productName,
                                  quantity, unitPrice)]
  ELSE LET newItem == [ID |-> 0,
                       ProductID |-> productID,
                       ProductSKU |-> TrimSpace(productSKU),
                       ProductName |-> TrimSpace(productName),
                       Quantity |-> quantity,
                       UnitPrice |-> unitPrice,
                       TotalPrice |-> quantity * unitPrice]
           appended == [o EXCEPT !.Items = Append(o.Items, newItem)]
       IN [order |-> [CalculateTotal(appended).order EXCEPT !.UpdatedAt = t],
           err |-> NoErr]

\* AddItem whose merge replaces the quantity instead of adding to it
AddItemReplacesQuantity(o, productID, productSKU, productName, quantity, unitPrice, t) ==
  IF isImmutable(o) THEN [order |-> o, err |-> ErrNotModifiable]
  ELSE IF validateOrderItem(productID, productSKU, productName,
                            quantity, unitPrice) # NoErr
  THEN [order |-> o,
        err |-> validateOrderItem(productID, productSKU, productName,
                                  quantity, unitPrice)]
  ELSE IF IndexOf(o.Items, productID) # 0
  THEN LET i == IndexOf(o.Items, productID)
           q == quantity
           merged == [o EXCEPT !.Items[i].Quantity = q,
                               !.Items[i].TotalPrice =
                                  q * o.Items[i].UnitPrice]
       IN [order |-> [CalculateTotal(merged).order EXCEPT !.UpdatedAt = t],
           err |-> NoErr]
  ELSE LET newItem == [ID |-> 0,
                       ProductID |-> productID,
                       ProductSKU |-> TrimSpace(productSKU),
                       ProductName |-> TrimSpace(productName),
                       Quantity |-> quantity,
                       UnitPrice |-> unitPrice,
                       TotalPrice |-> quantity * unitPrice]
           appended == [o EXCEPT !.Items = Append(o.Items, newItem)]
       IN [order |-> [CalculateTotal(appended).order EXCEPT !.UpdatedAt = t],
           err |-> NoErr]

\* AddItem that merges into an item of the product before it validates the
\* arguments
AddItemMergesUnvalidated(o, productID, productSKU, productName, quantity, unitPrice, t) ==
  IF isImmutable(o) THEN [order |-> o, err |-> ErrNotModifiable]
  ELSE IF IndexOf(o.Items, productID) # 0
  THEN LET i == IndexOf(o.Items, productID)
           q == o.Items[i].Quantity + quantity
           merged == [o EXCEPT !.Items[i].Quantity = q,
                               !.Items[i].TotalPrice =
                                  q * o.Items[i].UnitPrice]
       IN [order |-> [CalculateTotal(merged).order EXCEPT !.UpdatedAt = t],
           err |-> NoErr]
  ELSE IF validateOrderItem(productID, productSKU, productName,
                            quantity, unitPrice) # NoErr
  THEN [order |-> o,
        err |-> validateOrderItem(productID, productSKU, productName,
                                  quantity, unitPrice)]
  ELSE LET newItem == [ID |-> 0,
                       ProductID |-> productID,
                       ProductSKU |-> TrimSpace(productSKU),
                       ProductName |-> TrimSpace(productName),
                       Quantity |-> quantity,
                       UnitPrice |-> unitPrice,
                       TotalPrice |-> quantity * unitPrice]
           appended == [o EXCEPT !.Items = Append(o.Items, newItem)]
       IN [order |-> [CalculateTotal(appended).order EXCEPT !.UpdatedAt = t],
           err |-> NoErr]
AddItem(o, productID, productSKU, productName, quantity, unitPrice, t) ==
  IF isImmutable(o) THEN [order |-> o, err |-> ErrNotModifiable]
  ELSE IF validateOrderItem(productID, productSKU, productName,
                            quantity, unitPrice) # NoErr
  THEN [order |-> o,
        err |-> validateOrderItem(productID, productSKU, productName,
                                  quantity, unitPrice)]
  ELSE IF IndexOf(o.Items, productID) # 0
  THEN LET i == IndexOf(o.Items, productID)
           q == o.Items[i].Quantity + quantity
           merged == [o EXCEPT !.Items[i].Quantity = q,
                               !.Items[i].TotalPrice =
                                  q * o.Items[i].UnitPrice]
       IN [order |-> [CalculateTotal(merged).order EXCEPT !.UpdatedAt = t],
           err |-> NoErr]
  ELSE LET newItem == [ID |-> 0,
                       ProductID |-> productID,
                       ProductSKU |-> TrimSpace(productSKU),
                       ProductName |-> TrimSpace(productName),
                       Quantity |-> quantity,
                       UnitPrice |-> unitPrice,
                       TotalPrice |-> quantity * unitPrice]
           appended == [o EXCEPT !.Items = Append(o.Items, newItem)]
       IN [order |-> [CalculateTotal(appended).order EXCEPT !.UpdatedAt = t],
           err |-> NoErr]

\* RemoveItem that drops the last item instead of the one it found
RemoveItemDropsLast(o, productID, t) ==
  IF isImmutable(o) THEN [order |-> o, err |-> ErrNotModifiable]
  ELSE IF IndexOf(o.Items, productID) # 0
  THEN LET removed == [o EXCEPT !.Items =
                          SubSeq(o.Items, 1, Len(o.Items) - 1)]
       IN [order |-> [CalculateTotal(removed).order EXCEPT !.UpdatedAt = t],
           err |-> NoErr]
  ELSE [order |-> o, err |-> ErrItemNotFoundInOrder]

\* RemoveItem that stamps UpdatedAt before it looks the item up
RemoveItemTouchesFirst(o, productID, t) ==
  IF isImmutable(o) THEN [order |-> o, err |-> ErrNotModifiable]
  ELSE IF IndexOf(o.Items, productID) # 0
  THEN LET i == IndexOf(o.Items, productID)
           removed == [o EXCEPT !.Items =
                          SubSeq(o.Items, 1, i - 1)
                          \o SubSeq(o.Items, i + 1, Len(o.Items))]
       IN [order |-> [CalculateTotal(removed).order EXCEPT !.UpdatedAt = t],
           err |-> NoErr]
  ELSE [order |-> [o EXCEPT !.UpdatedAt = t], err |-> ErrItemNotFoundInOrder]

RemoveItem(o, productID, t) ==
  IF isImmutable(o) THEN [order |-> o, err |-> ErrNotModifiable]
  ELSE IF IndexOf(o.Items, productID) # 0
  THEN LET i == IndexOf(o.Items, productID)
           removed == [o EXCEPT !.Items =
                          SubSeq(o.Items, 1, i - 1)
                          \o SubSeq(o.Items, i + 1, Len(o.Items))]
       IN [order |-> [CalculateTotal(removed).order EXCEPT !.UpdatedAt = t],
           err |-> NoErr]
  ELSE [order |-> o, err |-> ErrItemNotFoundInOrder]

\* UpdateItemQuantity without the quantity check
UpdateItemQuantityUnchecked(o, productID, quantity, t) ==
  IF isImmutable(o) THEN [order |-> o, err |-> ErrNotModifiable]
  ELSE IF IndexOf(o.Items, productID) # 0
  THEN LET i == IndexOf(o.Items, productID)
           updated == [o EXCEPT !.Items[i].Quantity = quantity,
                                !.Items[i].TotalPrice =
                                   quantity * o.Items[i].UnitPrice]
       IN [order |-> [CalculateTotal(updated).order EXCEPT !.UpdatedAt = t],
           err |-> NoErr]
  ELSE [order |-> o, err |-> ErrItemNotFoundInOrder]

\* UpdateItemQuantity that adds to the quantity, as the merge of AddItem does
UpdateItemQuantityAdds(o, productID, quantity, t) ==
  IF isImmutable(o) THEN [order |-> o, err |-> ErrNotModifiable]
  ELSE IF quantity <= 0 THEN [order |-> o, err |-> ErrQuantity]
  ELSE IF IndexOf(o.Items, productID) # 0
  THEN LET i == IndexOf(o.Items, productID)
           q == o.Items[i].Quantity + quantity
           updated == [o EXCEPT !.Items[i].Quantity = q,
                                !.Items[i].TotalPrice =
                                   q * o.Items[i].UnitPrice]
       IN [order |-> [CalculateTotal(updated).order EXCEPT !.UpdatedAt = t],
           err |-> NoErr]
  ELSE [order |-> o, err |-> ErrItemNotFoundInOrder]

\* UpdateItemQuantity that looks the item up before it checks the quantity
UpdateItemQuantityLookupFirst(o, productID, quantity, t) ==
  IF isImmutable(o) THEN [order |-> o, err |-> ErrNotModifiable]
  ELSE IF IndexOf(o.Items, productID) = 0
  THEN [order |-> o, err |-> ErrItemNotFoundInOrder]
  ELSE IF quantity <= 0 THEN [order |-> o, err |-> ErrQuantity]
  ELSE LET i == IndexOf(o.Items, productID)
           updated == [o EXCEPT !.Items[i].Quantity = quantity,
                                !.Items[i].TotalPrice =
                                   quantity * o.Items[i].UnitPrice]
       IN [order |-> [CalculateTotal(updated).order EXCEPT !.UpdatedAt = t],
           err |-> NoErr]

UpdateItemQuantity(o, productID, quantity, t) ==
  IF isImmutable(o) THEN [order |-> o, err |-> ErrNotModifiable]
  ELSE IF quantity <= 0 THEN [order |-> o, err |-> ErrQuantity]
  ELSE IF IndexOf(o.Items, productID) # 0
  THEN LET i == IndexOf(o.Items, productID)
           updated == [o EXCEPT !.Items[i].Quantity = quantity,
                                !.Items[i].TotalPrice =
                                   quantity * o.Items[i].UnitPrice]
       IN [order |-> [CalculateTotal(updated).order EXCEPT !.UpdatedAt = t],
           err |-> NoErr]
  ELSE [order |-> o, err |-> ErrItemNotFoundInOrder]

\* ConfirmOrder that rejects only an order that is already confirmed
ConfirmOrderRejectsConfirmedOnly(o, t) ==
  IF o.Status = OrderStatusConfirmed THEN [order |-> o, err |-> ErrOnlyPending]
  ELSE IF Len(o.Items) = 0 THEN [order |-> o, err |-> ErrEmptyOrder]
  ELSE [order |-> [o EXCEPT !.Status = OrderStatusConfirmed,
                            !.UpdatedAt = t],
        err |-> NoErr]

\* ConfirmOrder that checks for an empty order before the status
ConfirmOrderEmptyFirst(o, t) ==
  IF Len(o.Items) = 0 THEN [order |-> o, err |-> ErrEmptyOrder]
  ELSE IF o.Status # OrderStatusPending
  THEN [order |-> o, err |-> ErrOnlyPending]
  ELSE [order |-> [o EXCEPT !.Status = OrderStatusConfirmed,
                            !.UpdatedAt = t],
        err |-> NoErr]

\* ConfirmOrder without the empty-order check
ConfirmOrderNoEmptyCheck(o, t) ==
  IF o.Status # OrderStatusPending THEN [order |-> o, err |-> ErrOnlyPending]
  ELSE [order |-> [o EXCEPT !.Status = OrderStatusConfirmed,
                            !.UpdatedAt = t],
        err |-> NoErr]

ConfirmOrder(o, t) ==
  IF o.Status # OrderStatusPending THEN [order |-> o, err |-> ErrOnlyPending]
  ELSE IF Len(o.Items) = 0 THEN [order |-> o, err |-> ErrEmptyOrder]
  ELSE [order |-> [o EXCEPT !.Status = OrderStatusConfirmed,
                            !.UpdatedAt = t],
        err |-> NoErr]

\* CancelOrder without the CanBeCancelled check
CancelOrderUnchecked(o, t) ==
  [order |-> [o EXCEPT !.Status = OrderStatusCancelled, !.UpdatedAt = t],
   err |-> NoErr]

CancelOrder(o, t) ==
  IF ~CanBeCancelled(o) THEN [order |-> o, err |-> ErrCannotCancel]
  ELSE [order |-> [o EXCEPT !.Status = OrderStatusCancelled,
                            !.UpdatedAt = t],
        err |-> NoErr]

\* TransitionToProcessing that does not stamp UpdatedAt
TransitionToProcessingNoStamp(o, t) ==
  IF o.Status # OrderStatusConfirmed
  THEN [order |-> o, err |-> ErrOnlyConfirmed]
  ELSE [order |-> [o EXCEPT !.Status = OrderStatusProcessing], err |-> NoErr]

TransitionToProcessing(o, t) ==
  IF o.Status # OrderStatusConfirmed
  THEN [order |-> o, err |-> ErrOnlyConfirmed]
  ELSE [order |-> [o EXCEPT !.Status = OrderStatusProcessing,
                            !.UpdatedAt = t],
        err |-> NoErr]

\* TransitionToShipped that also ships a confirmed order
TransitionToShippedSkipsProcessing(o, t) ==
  IF o.Status # OrderStatusProcessing /\ o.Status # OrderStatusConfirmed
  THEN [order |-> o, err |-> ErrOnlyProcessing]
  ELSE [order |-> [o EXCEPT !.Status = OrderStatusShipped,
                            !.UpdatedAt = t],
        err |-> NoErr]

TransitionToShipped(o, t) ==
  IF o.Status # OrderStatusProcessing
  THEN [order |-> o, err |-> ErrOnlyProcessing]
  ELSE [order |-> [o EXCEPT !.Status = OrderStatusShipped,
                            !.UpdatedAt = t],
        err |-> NoErr]

TransitionToDelivered(o, t) ==
  IF o.Status # OrderStatusShipped
  THEN [order |-> o, err |-> ErrOnlyShipped]
  ELSE [order |-> [o EXCEPT !.Status = OrderStatusDelivered,
                            !.UpdatedAt = t],
        err |-> NoErr]

\* TransitionToRefunded that also zeroes the amount of the refunded order
TransitionToRefundedZeroesTotal(o, t) ==
  IF o.Status # OrderStatusDelivered
  THEN [order |-> o, err |-> ErrOnlyDelivered]
  ELSE [order |-> [o EXCEPT !.Status = OrderStatusRefunded,
                            !.TotalAmount = 0,
                            !.UpdatedAt = t],
        err |-> NoErr]
TransitionToRefunded(o, t) ==
  IF o.Status # OrderStatusDelivered
  THEN [order |-> o, err |-> ErrOnlyDelivered]
  ELSE [order |-> [o EXCEPT !.Status = OrderStatusRefunded,
                            !.UpdatedAt = t],
        err |-> NoErr]

\* NewOrder without the customer id check
NewOrderUnchecked(customerID, t) ==
  [order |-> <<[ID |-> 0,
                CustomerID |-> customerID,
                Items |-> <<>>,
                TotalAmount |-> 0,
                Status |-> OrderStatusPending,
                CreatedAt |-> t,
                UpdatedAt |-> t]>>,
   err |-> NoErr]

NewOrder(customerID, t) ==
  IF customerID = 0
  THEN [order |-> <<>>, err |-> ErrCustomerID]
  ELSE [order |-> <<[ID |-> 0,
                     CustomerID |-> customerID,
                     Items |-> <<>>,
                     TotalAmount |-> 0,
                     Status |-> OrderStatusPending,
                     CreatedAt |-> t,
                     UpdatedAt |-> t]>>,
        err |-> NoErr]

NewOrderItem(productID, productSKU, productName, quantity, unitPrice) ==
  IF validateOrderItem(productID, productSKU, productName,
                       quantity, unitPrice) # NoErr
  THEN [item |-> <<>>,
        err |-> validateOrderItem(productID, productSKU, productName,
                                  quantity, unitPrice)]
  ELSE [item |-> <<[ID |-> 0,
                    ProductID |-> productID,
                    ProductSKU |-> TrimSpace(productSKU),
                    ProductName |-> TrimSpace(productName),
                    Quantity |-> quantity,
                    UnitPrice |-> unitPrice,
                    TotalPrice |-> quantity * unitPrice]>>,
        err |-> NoErr]

\* the query helpers
IsEmpty(o) == Len(o.Items) = 0
IsPending(o) == o.Status = OrderStatusPending
IsConfirmed(o) == o.Status = OrderStatusConfirmed
IsCancelled(o) == o.Status = OrderStatusCancelled
IsDelivered(o) == o.Status = OrderStatusDelivered
GetItemCount(o) == Len(o.Items)
\* GetTotalQuantity that counts the items instead of adding their quantities
GetTotalQuantityCountsItems(o) == Len(o.Items)
GetTotalQuantity(o) == SumQuantity(o.Items)

GetItem(o, productID) ==
  IF IndexOf(o.Items, productID) # 0
  THEN [item |-> <<o.Items[IndexOf(o.Items, productID)]>>, err |-> NoErr]
  ELSE [item |-> <<>>, err |-> ErrItemNotFound]

\* ---------------------------------------------------------------- errors
\* The codes of the DomainError values (internal/domain/errors/orders.go).
\* An error value is its code when it is a *DomainError and its message when
\* it is a plain errors.New value.
ErrOrderNotFound == "ORDER_NOT_FOUND"
ErrOrderAlreadyExists == "ORDER_ALREADY_EXISTS"
ErrInvalidCustomerID == "INVALID_CUSTOMER_ID"
ErrInvalidOrderStatus == "INVALID_ORDER_STATUS"
ErrInvalidStatusTransition == "INVALID_STATUS_TRANSITION"
ErrOrderAlreadyConfirmed == "ORDER_ALREADY_CONFIRMED"
ErrOrderCannotBeCancelled == "ORDER_CANNOT_BE_CANCELLED"
DomainErrEmptyOrder == "EMPTY_ORDER"
ErrOrderItemNotFound == "ORDER_ITEM_NOT_FOUND"
ErrFailedToCreateOrder == "FAILED_TO_CREATE_ORDER"
ErrFailedToUpdateOrder == "FAILED_TO_UPDATE_ORDER"
ErrFailedToDeleteOrder == "FAILED_TO_DELETE_ORDER"
ErrFailedToListOrders == "FAILED_TO_LIST_ORDERS"

\* errors.As(err, &domainErr): the values that are a *DomainError
DomainErrors ==
  {ErrOrderNotFound, ErrOrderAlreadyExists, ErrInvalidCustomerID,
   ErrInvalidOrderStatus, ErrInvalidStatusTransition,
   ErrOrderAlreadyConfirmed, ErrOrderCannotBeCancelled, DomainErrEmptyOrder,
   ErrOrderItemNotFound, ErrFailedToCreateOrder, ErrFailedToUpdateOrder,
   ErrFailedToDeleteOrder, ErrFailedToListOrders}

\* the plain errors of the use cases and of the status validation
ErrUnsupportedTransition == "unsupported status transition"
ErrInvalidStatusValue == "invalid order status"
\* an error of the database driver that handleError passes on as it is
ErrDatabase == "database error"

ValidateOrderStatus(status) ==
  IF status \in OrderStatus THEN NoErr ELSE ErrInvalidStatusValue

\* ---------------------------------------------------------------- repository
\* The orders table holds at most one row per id; a row carries its item
\* rows.  A nil slice and an empty slice are both the empty sequence.

\* the item rows of toModel: every item row is given the order's id
toModelItems(items, orderID) ==
  [i \in 1..Len(items) |->
     [ID |-> items[i].ID,
      OrderID |-> orderID,
      ProductID |-> items[i].ProductID,
      ProductSKU |-> items[i].ProductSKU,
      ProductName |-> items[i].ProductName,
      Quantity |-> items[i].Quantity,
      UnitPrice |-> items[i].UnitPrice,
      TotalPrice |-> items[i].TotalPrice]]

\* toModel that forgets the identity of the item rows
toModelDropsItemID(o) ==
  [ID |-> o.ID,
   CustomerID |-> o.CustomerID,
   Items |-> IF Len(o.Items) > 0
             THEN [i \in 1..Len(o.Items) |->
                     [toModelItems(o.Items, o.ID)[i] EXCEPT !.ID = 0]]
             ELSE <<>>,
   TotalAmount |-> o.TotalAmount,
   Status |-> o.Status,
   CreatedAt |-> o.CreatedAt,
   UpdatedAt |-> o.UpdatedAt,
   Deleted |-> FALSE]

toModel(o) ==
  [ID |-> o.ID,
   CustomerID |-> o.CustomerID,
   Items |-> IF Len(o.Items) > 0 THEN toModelItems(o.Items, o.ID) ELSE <<>>,
   TotalAmount |-> o.TotalAmount,
   Status |-> o.Status,
   CreatedAt |-> o.CreatedAt,
   UpdatedAt |-> o.UpdatedAt,
   Deleted |-> FALSE]

toEntityItems(items) ==
  [i \in 1..Len(items) |->
     [ID |-> items[i].ID,
      ProductID |-> items[i].ProductID,
      ProductSKU |-> items[i].ProductSKU,
      ProductName |-> items[i].ProductName,
      Quantity |-> items[i].Quantity,
      UnitPrice |-> items[i].UnitPrice,
      TotalPrice |-> items[i].TotalPrice]]

toEntity(model) ==
  [ID |-> model.ID,
   CustomerID |-> model.CustomerID,
   Items |-> IF Len(model.Items) > 0 THEN toEntityItems(model.Items) ELSE <<>>,
   TotalAmount |-> model.TotalAmount,
   Status |-> model.Status,
   CreatedAt |-> model.CreatedAt,
   UpdatedAt |-> model.UpdatedAt]

\* the ids of the rows that have one
ItemIDs(items) == {items[i].ID : i \in 1..Len(items)} \ {0}

\* an id no row has: the value is the database's choice, what matters is
\* that it is not in use; the least free one is taken
FreshID(used) ==
  CHOOSE n \in 1..(Cardinality(used) + 1) :
    n \notin used /\ \A m \in 1..(n - 1) : m \in used

RECURSIVE InsertFrom(_, _, _)
InsertFrom(items, used, orderID) ==
  IF items = <<>> THEN <<>>
  ELSE LET id == IF Head(items).ID # 0 THEN Head(items).ID
                 ELSE FreshID(used)
       IN <<[Head(items) EXCEPT !.OrderID = orderID, !.ID = id]>>
          \o InsertFrom(Tail(items), used \cup {id}, orderID)

\* tx.Create(&items): a row that has an id keeps it, a row without one is
\* given a fresh id by the database, in the order of insertion
InsertItems(items, orderID) == InsertFrom(items, ItemIDs(items), orderID)

\* the rows a query sees: soft-deleted rows are left out
Live(d, id) == id \in DOMAIN d /\ d[id] # <<>> /\ ~d[id][1].Deleted

\* GetByID: First(&model) with the items preloaded, then toEntity
GetByID(d, id, fault) ==
  IF fault THEN [order |-> <<>>, err |-> ErrDatabase]
  ELSE IF Live(d, id) THEN [order |-> <<toEntity(d[id][1])>>, err |-> NoErr]
  ELSE [order |-> <<>>, err |-> ErrOrderNotFound]

\* the transaction of Update that writes the item rows and leaves the order
\* row as it was
UpdateTxItemsOnly(d, o, t, fault) ==
  IF fault \/ o.ID \notin DOMAIN d \/ d[o.ID] = <<>>
  THEN [db |-> d, err |-> ErrDatabase]
  ELSE [db |-> [d EXCEPT ![o.ID] =
                  <<[d[o.ID][1] EXCEPT
                       !.Items = InsertItems(toModel(o).Items, o.ID)]>>],
        err |-> NoErr]

\* the transaction of Update: the columns customer_id, total_amount, status
\* and updated_at of the live row are written, the item rows of the order
\* are deleted and those of the entity inserted; an error rolls all back
UpdateTx(d, o, t, fault) ==
  IF fault \/ o.ID \notin DOMAIN d \/ d[o.ID] = <<>>
  THEN [db |-> d, err |-> ErrDatabase]
  ELSE LET m == toModel(o)
           row == d[o.ID][1]
           written == IF row.Deleted THEN row
                      ELSE [row EXCEPT !.CustomerID = m.CustomerID,
                                       !.TotalAmount = m.TotalAmount,
                                       !.Status = m.Status,
                                       !.UpdatedAt = t]
       IN [db |-> [d EXCEPT ![o.ID] =
                     <<[written EXCEPT
                          !.Items = InsertItems(m.Items, o.ID)]>>],
           err |-> NoErr]

\* the ids the database has not handed out yet
FreeIDs(d) == {id \in DOMAIN d : d[id] = <<>>}

\* the transaction of Create: the row is given the next id and inserted
\* with its item rows
CreateTx(d, o, fault) ==
  IF fault \/ FreeIDs(d) = {}
  THEN [db |-> d, id |-> 0, err |-> ErrDatabase]
  ELSE LET id == CHOOSE i \in FreeIDs(d) : \A j \in FreeIDs(d) : i <= j
           m == toModel(o)
       IN [db |-> [d EXCEPT ![id] =
                     <<[m EXCEPT !.ID = id,
                                 !.Items = InsertItems(m.Items, id)]>>],
           id |-> id,
           err |-> NoErr]

\* Delete: the soft delete of the row; no row affected is order-not-found
Delete(d, id, fault) ==
  IF fault THEN [db |-> d, err |-> ErrDatabase]
  ELSE IF Live(d, id)
  THEN [db |-> [d EXCEPT ![id] = <<[d[id][1] EXCEPT !.Deleted = TRUE]>>],
        err |-> NoErr]
  ELSE [db |-> d, err |-> ErrOrderNotFound]

\* the live rows, newest first (ORDER BY created_at DESC)
RECURSIVE SortedLive(_, _)
SortedLive(d, ids) ==
  IF ids = {} THEN <<>>
  ELSE LET first == CHOOSE i \in ids : \A j \in ids :
                      \/ d[i][1].CreatedAt > d[j][1].CreatedAt
                      \/ d[i][1].CreatedAt = d[j][1].CreatedAt /\ i <= j
       IN <<first>> \o SortedLive(d, ids \ {first})

\* List: Limit(limit).Offset(offset) on the live rows, then toEntities
List(d, limit, offset, fault) ==
  IF fault THEN [orders |-> <<>>, err |-> ErrDatabase]
  ELSE LET rows == SortedLive(d, {id \in DOMAIN d : Live(d, id)})
           last == IF offset + limit < Len(rows) THEN offset + limit
                   ELSE Len(rows)
       IN [orders |-> [i \in 1..(IF last > offset THEN last - offset ELSE 0)
                         |-> toEntity(d[rows[offset + i]][1])],
           err |-> NoErr]

\* Count: the number of live rows
Count(d, fault) ==
  IF fault THEN [count |-> 0, err |-> ErrDatabase]
  ELSE [count |-> Cardinality({id \in DOMAIN d : Live(d, id)}), err |-> NoErr]

\* ---------------------------------------------------------------- dto
\* CreateOrderRequestDTO.ToEntity: NewOrder, then AddItem for each request
\* item in turn, stopping at the first error
RECURSIVE AddItemsReversed(_, _, _)
\* the loop of ToEntity that takes the request items from the last to the
\* first
AddItemsReversed(o, items, t) ==
  IF items = <<>> THEN [order |-> <<o>>, err |-> NoErr]
  ELSE LET in == items[Len(items)]
           res == AddItem(o, in[1], in[2], in[3], in[4], in[5], t)
       IN IF res.err # NoErr THEN [order |-> <<>>, err |-> res.err]
          ELSE AddItemsReversed(res.order, SubSeq(items, 1, Len(items) - 1), t)

RECURSIVE AddItems(_, _, _)
AddItems(o, items, t) ==
  IF items = <<>> THEN [order |-> <<o>>, err |-> NoErr]
  ELSE LET in == Head(items)
           res == AddItem(o, in[1], in[2], in[3], in[4], in[5], t)
       IN IF res.err # NoErr THEN [order |-> <<>>, err |-> res.err]
          ELSE AddItems(res.order, Tail(items), t)

ToEntity(customerID, items, t) ==
  IF NewOrder(customerID, t).err # NoErr
  THEN [order |-> <<>>, err |-> NewOrder(customerID, t).err]
  ELSE AddItems(NewOrder(customerID, t).order[1], items, t)

OrderToResponseDTO(o) ==
  [ID |-> o.ID,
   CustomerID |-> o.CustomerID,
   Items |-> toEntityItems(o.Items),
   ItemCount |-> GetItemCount(o),
   TotalItems |-> GetTotalQuantity(o),
   TotalAmount |-> o.TotalAmount,
   Status |-> o.Status,
   CreatedAt |-> o.CreatedAt,
   UpdatedAt |-> o.UpdatedAt]

\* ---------------------------------------------------------------- handler
\* handleError: the HTTP status and the error code of the response
\* handleError that answers an order that is not found with 400
handleErrorNotFoundAsBadRequest(e) ==
  IF e \in DomainErrors
  THEN IF e = ErrOrderAlreadyExists THEN [status |-> 409, code |-> e]
       ELSE [status |-> 400, code |-> e]
  ELSE [status |-> 500, code |-> "INTERNAL_ERROR"]
handleError(e) ==
  IF e \in DomainErrors
  THEN IF e = ErrOrderNotFound THEN [status |-> 404, code |-> e]
       ELSE IF e = ErrOrderAlreadyExists THEN [status |-> 409, code |-> e]
       ELSE [status |-> 400, code |-> e]
  ELSE [status |-> 500, code |-> "INTERNAL_ERROR"]

\* normalizePagination
\* normalizePagination that cuts a page size above 100 down to 100
normalizePaginationClamps(page, pageSize) ==
  [page |-> IF page < 0 THEN 0 ELSE page,
   pageSize |-> IF pageSize < 1 THEN 10
                ELSE IF pageSize > 100 THEN 100 ELSE pageSize]
normalizePagination(page, pageSize) ==
  [page |-> IF page < 0 THEN 0 ELSE page,
   pageSize |-> IF pageSize < 1 \/ pageSize > 100 THEN 10 ELSE pageSize]

\* ---------------------------------------------------------------- workers
\* the request workers that run use cases
Procs == {1, 2}

\* a worker that runs no use case
Idle ==
  [op |-> "none", pc |-> "idle", orderID |-> 0, customerID |-> 0,
   productID |-> 0, quantity |-> 0, status |-> "", items |-> <<>>,
   page |-> 0, pageSize |-> 0,
   fetched |-> <<>>, saved |-> <<>>, calls |-> <<>>, err |-> NoErr,
   result |-> <<>>]
\* ---------------------------------------------------------------- state
VARIABLES
  order,  \* the aggregate
  now,    \* the clock time.Now() reads
  call,   \* the last call made on the aggregate, with its arguments
  err,    \* the error the last call returned (NoErr for a helper)
  ret,    \* the value the last call returned (0 when it returns none)
  pre,    \* the aggregate as it was when the last call was made
  db,     \* the orders table with its item rows, by order id
  uc      \* the use-case call each request worker is in, with its progress

vars == <<order, now, call, err, ret, pre, db, uc>>

Call(op, productID, productSKU, productName, quantity, unitPrice) ==
  [op |-> op, customerID |-> 0, productID |-> productID,
   productSKU |-> productSKU, productName |-> productName,
   quantity |-> quantity, unitPrice |-> unitPrice]

NoArgs(op) == Call(op, 0, <<>>, <<>>, 0, 0)

CallOfNewOrder(customerID) ==
  [op |-> "NewOrder", customerID |-> customerID, productID |-> 0,
   productSKU |-> <<>>, productName |-> <<>>, quantity |-> 0,
   unitPrice |-> 0]

\* the explored runs keep every quantity within MaxQuantity
WithinBounds(o) ==
  \A i \in 1..Len(o.Items) : o.Items[i].Quantity <= MaxQuantity

\* an order has been constructed, at any time of the clock
Init ==
  \E customerID \in CustomerIDs, t \in 0..MaxTime :
    /\ NewOrder(customerID, t).err = NoErr
    /\ order = NewOrder(customerID, t).order[1]
    /\ pre = NewOrder(customerID, t).order[1]
    /\ now = t
    /\ call = CallOfNewOrder(customerID)
    /\ err = NoErr
    /\ ret = NewOrder(customerID, t).order
    /\ db = [id \in OrderIDs |-> <<>>]
    /\ uc = [p \in Procs |-> Idle]

\* a mutating method was called: its outcome becomes the state
Returns(res) ==
  /\ WithinBounds(res.order)
  /\ pre' = order
  /\ order' = res.order
  /\ err' = res.err
  /\ ret' = 0
  /\ UNCHANGED <<now, db, uc>>

\* a helper was called: it returns a value and touches nothing
Answers(value, e) ==
  /\ pre' = order
  /\ ret' = value
  /\ err' = e
  /\ UNCHANGED <<order, now, db, uc>>

Tick ==
  /\ now < MaxTime
  /\ now' = now + 1
  /\ UNCHANGED <<order, call, err, ret, pre, db, uc>>

CallAddItem ==
  \E in \in AddItemInputs :
    /\ call' = Call("AddItem", in[1], in[2], in[3], in[4], in[5])
    /\ Returns(AddItem(order, in[1], in[2], in[3], in[4], in[5], now))

CallRemoveItem ==
  \E productID \in ProductIDs :
    /\ call' = Call("RemoveItem", productID, <<>>, <<>>, 0, 0)
    /\ Returns(RemoveItem(order, productID, now))

CallUpdateItemQuantity ==
  \E productID \in ProductIDs, quantity \in Quantities :
    /\ call' = Call("UpdateItemQuantity", productID, <<>>, <<>>, quantity, 0)
    /\ Returns(UpdateItemQuantity(order, productID, quantity, now))

CallCalculateTotal ==
  /\ call' = NoArgs("CalculateTotal")
  /\ pre' = order
  /\ order' = CalculateTotal(order).order
  /\ ret' = CalculateTotal(order).total
  /\ err' = NoErr
  /\ UNCHANGED <<now, db, uc>>

CallConfirmOrder ==
  /\ call' = NoArgs("ConfirmOrder")
  /\ Returns(ConfirmOrder(order, now))

CallCancelOrder ==
  /\ call' = NoArgs("CancelOrder")
  /\ Returns(CancelOrder(order, now))

CallTransitionToProcessing ==
  /\ call' = NoArgs("TransitionToProcessing")
  /\ Returns(TransitionToProcessing(order, now))

CallTransitionToShipped ==
  /\ call' = NoArgs("TransitionToShipped")
  /\ Returns(TransitionToShipped(order, now))

CallTransitionToDelivered ==
  /\ call' = NoArgs("TransitionToDelivered")
  /\ Returns(TransitionToDelivered(order, now))

CallTransitionToRefunded ==
  /\ call' = NoArgs("TransitionToRefunded")
  /\ Returns(TransitionToRefunded(order, now))

CallCanBeCancelled ==
  /\ call' = NoArgs("CanBeCancelled")
  /\ Answers(CanBeCancelled(order), NoErr)

CallIsEmpty ==
  /\ call' = NoArgs("IsEmpty")
  /\ Answers(IsEmpty(order), NoErr)

CallIsPending ==
  /\ call' = NoArgs("IsPending")
  /\ Answers(IsPending(order), NoErr)

CallIsConfirmed ==
  /\ call' = NoArgs("IsConfirmed")
  /\ Answers(IsConfirmed(order), NoErr)

CallIsCancelled ==
  /\ call' = NoArgs("IsCancelled")
  /\ Answers(IsCancelled(order), NoErr)

CallIsDelivered ==
  /\ call' = NoArgs("IsDelivered")
  /\ Answers(IsDelivered(order), NoErr)

CallGetItemCount ==
  /\ call' = NoArgs("GetItemCount")
  /\ Answers(GetItemCount(order), NoErr)

CallGetTotalQuantity ==
  /\ call' = NoArgs("GetTotalQuantity")
  /\ Answers(GetTotalQuantity(order), NoErr)

CallGetItem ==
  \E productID \in ProductIDs :
    /\ call' = Call("GetItem", productID, <<>>, <<>>, 0, 0)
    /\ Answers(GetItem(order, productID).item, GetItem(order, productID).err)

Next ==
  \/ Tick
  \/ CallAddItem
  \/ CallRemoveItem
  \/ CallUpdateItemQuantity
  \/ CallCalculateTotal
  \/ CallConfirmOrder
  \/ CallCancelOrder
  \/ CallTransitionToProcessing
  \/ CallTransitionToShipped
  \/ CallTransitionToDelivered
  \/ CallTransitionToRefunded
  \/ CallCanBeCancelled
  \/ CallIsEmpty
  \/ CallIsPending
  \/ CallIsConfirmed
  \/ CallIsCancelled
  \/ CallIsDelivered
  \/ CallGetItemCount
  \/ CallGetTotalQuantity
  \/ CallGetItem

Spec == Init /\ [][Next]_vars

\* ---------------------------------------------------------------- factories
\* The factory functions and the item validation, on the whole of their
\* argument combinations.  A successful NewOrder gives the caller the order
\* it goes on with.

CallNewOrder ==
  \E customerID \in FactoryCustomerIDs :
    /\ pre' = order
    /\ order' = IF NewOrder(customerID, now).err = NoErr
                THEN NewOrder(customerID, now).order[1]
                ELSE order
    /\ ret' = NewOrder(customerID, now).order
    /\ err' = NewOrder(customerID, now).err
    /\ call' = CallOfNewOrder(customerID)
    /\ UNCHANGED <<now, db, uc>>

CallNewOrderItem ==
  \E productID \in ValidateProductIDs, productSKU \in ValidateSKUs,
     productName \in ValidateNames, quantity \in ValidateQuantities,
     unitPrice \in ValidateUnitPrices :
    /\ call' = Call("NewOrderItem", productID, productSKU, productName,
                    quantity, unitPrice)
    /\ pre' = order
    /\ ret' = NewOrderItem(productID, productSKU, productName,
                           quantity, unitPrice).item
    /\ err' = NewOrderItem(productID, productSKU, productName,
                           quantity, unitPrice).err
    /\ UNCHANGED <<order, now, db, uc>>

CallAddItemAny ==
  \E productID \in ValidateProductIDs, productSKU \in ValidateSKUs,
     productName \in ValidateNames, quantity \in ValidateQuantities,
     unitPrice \in ValidateUnitPrices :
    /\ call' = Call("AddItem", productID, productSKU, productName,
                    quantity, unitPrice)
    /\ Returns(AddItem(order, productID, productSKU, productName,
                       quantity, unitPrice, now))

NextFactory ==
  \/ Tick
  \/ CallNewOrder
  \/ CallNewOrderItem
  \/ CallAddItemAny
  \/ CallConfirmOrder
  \/ CallCancelOrder

SpecFactory == Init /\ [][NextFactory]_vars

\* ---------------------------------------------------------------- use cases
\* The use cases of internal/application/usecases/orders.go, run by a request
\* worker.  A use case takes one step per access to the database, so that
\* the accesses of several workers can interleave; what it computes between
\* two accesses belongs to the step of the second.  Any access may fail with
\* a database error.  calls lists the repository methods and the aggregate
\* method the use case has invoked.

\* the switch of TransitionOrderStatus that routes refunded to CancelOrder
DispatchRefundCancels(o, status, t) ==
  IF status = OrderStatusConfirmed
  THEN [res |-> ConfirmOrder(o, t), method |-> <<"ConfirmOrder">>]
  ELSE IF status = OrderStatusProcessing
  THEN [res |-> TransitionToProcessing(o, t),
        method |-> <<"TransitionToProcessing">>]
  ELSE IF status = OrderStatusShipped
  THEN [res |-> TransitionToShipped(o, t), method |-> <<"TransitionToShipped">>]
  ELSE IF status = OrderStatusDelivered
  THEN [res |-> TransitionToDelivered(o, t),
        method |-> <<"TransitionToDelivered">>]
  ELSE IF status = OrderStatusCancelled \/ status = OrderStatusRefunded
  THEN [res |-> CancelOrder(o, t), method |-> <<"CancelOrder">>]
  ELSE [res |-> [order |-> o, err |-> ErrUnsupportedTransition],
        method |-> <<>>]

\* the switch of TransitionOrderStatus
Dispatch(o, status, t) ==
  IF status = OrderStatusConfirmed
  THEN [res |-> ConfirmOrder(o, t), method |-> <<"ConfirmOrder">>]
  ELSE IF status = OrderStatusProcessing
  THEN [res |-> TransitionToProcessing(o, t),
        method |-> <<"TransitionToProcessing">>]
  ELSE IF status = OrderStatusShipped
  THEN [res |-> TransitionToShipped(o, t), method |-> <<"TransitionToShipped">>]
  ELSE IF status = OrderStatusDelivered
  THEN [res |-> TransitionToDelivered(o, t),
        method |-> <<"TransitionToDelivered">>]
  ELSE IF status = OrderStatusCancelled
  THEN [res |-> CancelOrder(o, t), method |-> <<"CancelOrder">>]
  ELSE IF status = OrderStatusRefunded
  THEN [res |-> TransitionToRefunded(o, t),
        method |-> <<"TransitionToRefunded">>]
  ELSE [res |-> [order |-> o, err |-> ErrUnsupportedTransition],
        method |-> <<>>]

\* a worker takes up a use case on an existing order: GetByID
Begin(p, op, orderID, productID, quantity, status, items, fault) ==
  /\ uc[p].pc \in {"idle", "done"}
  /\ uc' = [uc EXCEPT ![p] =
       [op |-> op,
        pc |-> IF GetByID(db, orderID, fault).err = NoErr
               THEN "fetched" ELSE "done",
        orderID |-> orderID, customerID |-> 0, productID |-> productID,
        quantity |-> quantity, status |-> status, items |-> items,
        page |-> 0, pageSize |-> 0,
        fetched |-> GetByID(db, orderID, fault).order,
        saved |-> <<>>,
        calls |-> <<"GetByID">>,
        err |-> GetByID(db, orderID, fault).err,
        result |-> <<>>]]
  /\ UNCHANGED <<order, now, call, err, ret, pre, db>>

\* the step after the aggregate method that calls Update whatever the
\* method returned
SaveUnconditionally(p, method, res, fault) ==
  /\ uc[p].pc = "fetched"
  /\ WithinBounds(res.order)
  /\ uc' = [uc EXCEPT ![p].pc = IF UpdateTx(db, res.order, now, fault).err
                                     = NoErr
                                  THEN "written" ELSE "done",
                      ![p].saved = <<res.order>>,
                      ![p].calls = @ \o method \o <<"Update">>,
                      ![p].err = IF UpdateTx(db, res.order, now, fault).err
                                      = NoErr
                                   THEN NoErr ELSE ErrFailedToUpdateOrder]
  /\ db' = UpdateTx(db, res.order, now, fault).db
  /\ UNCHANGED <<order, now, call, err, ret, pre>>

\* the step after the aggregate method that returns the error of Update as
\* the repository gave it
SavePassesError(p, method, res, fault) ==
  /\ uc[p].pc = "fetched"
  /\ WithinBounds(res.order)
  /\ IF res.err # NoErr
     THEN /\ uc' = [uc EXCEPT ![p].pc = "done",
                              ![p].calls = @ \o method,
                              ![p].err = res.err]
          /\ UNCHANGED db
     ELSE /\ uc' = [uc EXCEPT
               ![p].pc = IF UpdateTx(db, res.order, now, fault).err = NoErr
                         THEN "written" ELSE "done",
               ![p].saved = <<res.order>>,
               ![p].calls = @ \o method \o <<"Update">>,
               ![p].err = UpdateTx(db, res.order, now, fault).err]
          /\ db' = UpdateTx(db, res.order, now, fault).db
  /\ UNCHANGED <<order, now, call, err, ret, pre>>

\* the step after the aggregate method has run on the fetched order: its
\* error is returned, or the order is handed to Update, whose transaction
\* is this step
Save(p, method, res, fault) ==
  /\ uc[p].pc = "fetched"
  /\ WithinBounds(res.order)
  /\ IF res.err # NoErr
     THEN /\ uc' = [uc EXCEPT ![p].pc = "done",
                              ![p].calls = @ \o method,
                              ![p].err = res.err]
          /\ UNCHANGED db
     ELSE /\ uc' = [uc EXCEPT
               ![p].pc = IF UpdateTx(db, res.order, now, fault).err = NoErr
                         THEN "written" ELSE "done",
               ![p].saved = <<res.order>>,
               ![p].calls = @ \o method \o <<"Update">>,
               ![p].err = IF UpdateTx(db, res.order, now, fault).err = NoErr
                          THEN NoErr ELSE ErrFailedToUpdateOrder]
          /\ db' = UpdateTx(db, res.order, now, fault).db
  /\ UNCHANGED <<order, now, call, err, ret, pre>>

\* the last step of Update and of Create: the order is read back with
\* GetByID and the use case returns it as a response
Reload(p, failure, fault) ==
  /\ uc[p].pc = "written"
  /\ uc' = [uc EXCEPT
       ![p].pc = "done",
       ![p].err = IF GetByID(db, uc[p].orderID, fault).err = NoErr
                  THEN NoErr ELSE failure,
       ![p].result =
          IF GetByID(db, uc[p].orderID, fault).err = NoErr
          THEN <<OrderToResponseDTO(GetByID(db, uc[p].orderID, fault).order[1])>>
          ELSE <<>>]
  /\ UNCHANGED <<order, now, call, err, ret, pre, db>>

UCCreateOrder(p) ==
  \/ \E req \in CreateRequests, fault \in BOOLEAN :
       /\ uc[p].pc \in {"idle", "done"}
       /\ LET e == ToEntity(req[1], req[2], now)
              tx == CreateTx(db, e.order[1], fault)
          IN IF e.err # NoErr
             THEN /\ uc' = [uc EXCEPT ![p] =
                       [Idle EXCEPT !.op = "CreateOrder", !.pc = "done",
                                    !.customerID = req[1], !.items = req[2],
                                    !.err = e.err]]
                  /\ UNCHANGED db
             ELSE /\ WithinBounds(e.order[1])
                  /\ uc' = [uc EXCEPT ![p] =
                       [Idle EXCEPT !.op = "CreateOrder",
                                    !.pc = IF tx.err = NoErr
                                           THEN "written" ELSE "done",
                                    !.customerID = req[1], !.items = req[2],
                                    !.orderID = tx.id,
                                    !.saved = e.order,
                                    !.calls = <<"Create">>,
                                    !.err = IF tx.err = NoErr THEN NoErr
                                            ELSE ErrFailedToCreateOrder]]
                  /\ db' = tx.db
       /\ UNCHANGED <<order, now, call, err, ret, pre>>
  \/ \E fault \in BOOLEAN :
       /\ uc[p].op = "CreateOrder"
       /\ Reload(p, ErrFailedToCreateOrder, fault)

UCGetOrder(p) ==
  \E orderID \in RequestOrderIDs, fault \in BOOLEAN :
    /\ uc[p].pc \in {"idle", "done"}
    /\ uc' = [uc EXCEPT ![p] =
         [Idle EXCEPT
            !.op = "GetOrder", !.pc = "done", !.orderID = orderID,
            !.fetched = GetByID(db, orderID, fault).order,
            !.calls = <<"GetByID">>,
            !.err = GetByID(db, orderID, fault).err,
            !.result =
               IF GetByID(db, orderID, fault).err = NoErr
               THEN <<OrderToResponseDTO(GetByID(db, orderID, fault).order[1])>>
               ELSE <<>>]]
    /\ UNCHANGED <<order, now, call, err, ret, pre, db>>

UCAddItemToOrder(p) ==
  \/ \E orderID \in RequestOrderIDs, in \in UseCaseItems, fault \in BOOLEAN :
       Begin(p, "AddItemToOrder", orderID, in[1], in[4], "", <<in>>, fault)
  \/ \E fault \in BOOLEAN :
       /\ uc[p].op = "AddItemToOrder" /\ uc[p].pc = "fetched"
       /\ Save(p, <<"AddItem">>,
               AddItem(uc[p].fetched[1], uc[p].items[1][1], uc[p].items[1][2],
                       uc[p].items[1][3], uc[p].items[1][4],
                       uc[p].items[1][5], now),
               fault)
  \/ \E fault \in BOOLEAN :
       /\ uc[p].op = "AddItemToOrder"
       /\ Reload(p, ErrFailedToUpdateOrder, fault)

UCRemoveItemFromOrder(p) ==
  \/ \E orderID \in RequestOrderIDs, productID \in UseCaseProductIDs,
        fault \in BOOLEAN :
       Begin(p, "RemoveItemFromOrder", orderID, productID, 0, "", <<>>, fault)
  \/ \E fault \in BOOLEAN :
       /\ uc[p].op = "RemoveItemFromOrder" /\ uc[p].pc = "fetched"
       /\ Save(p, <<"RemoveItem">>,
               RemoveItem(uc[p].fetched[1], uc[p].productID, now), fault)
  \/ \E fault \in BOOLEAN :
       /\ uc[p].op = "RemoveItemFromOrder"
       /\ Reload(p, ErrFailedToUpdateOrder, fault)

UCUpdateItemQuantity(p) ==
  \/ \E orderID \in RequestOrderIDs, productID \in UseCaseProductIDs,
        quantity \in UseCaseQuantities, fault \in BOOLEAN :
       Begin(p, "UpdateItemQuantity", orderID, productID, quantity, "", <<>>,
             fault)
  \/ \E fault \in BOOLEAN :
       /\ uc[p].op = "UpdateItemQuantity" /\ uc[p].pc = "fetched"
       /\ Save(p, <<"UpdateItemQuantity">>,
               UpdateItemQuantity(uc[p].fetched[1], uc[p].productID,
                                  uc[p].quantity, now),
               fault)
  \/ \E fault \in BOOLEAN :
       /\ uc[p].op = "UpdateItemQuantity"
       /\ Reload(p, ErrFailedToUpdateOrder, fault)

UCConfirmOrder(p) ==
  \/ \E orderID \in RequestOrderIDs, fault \in BOOLEAN :
       Begin(p, "ConfirmOrder", orderID, 0, 0, "", <<>>, fault)
  \/ \E fault \in BOOLEAN :
       /\ uc[p].op = "ConfirmOrder" /\ uc[p].pc = "fetched"
       /\ Save(p, <<"ConfirmOrder">>, ConfirmOrder(uc[p].fetched[1], now),
               fault)
  \/ \E fault \in BOOLEAN :
       /\ uc[p].op = "ConfirmOrder"
       /\ Reload(p, ErrFailedToUpdateOrder, fault)

UCCancelOrder(p) ==
  \/ \E orderID \in RequestOrderIDs, fault \in BOOLEAN :
       Begin(p, "CancelOrder", orderID, 0, 0, "", <<>>, fault)
  \/ \E fault \in BOOLEAN :
       /\ uc[p].op = "CancelOrder" /\ uc[p].pc = "fetched"
       /\ Save(p, <<"CancelOrder">>, CancelOrder(uc[p].fetched[1], now), fault)
  \/ \E fault \in BOOLEAN :
       /\ uc[p].op = "CancelOrder"
       /\ Reload(p, ErrFailedToUpdateOrder, fault)

UCTransitionOrderStatus(p) ==
  \/ \E orderID \in RequestOrderIDs, status \in TargetStatuses,
        fault \in BOOLEAN :
       Begin(p, "TransitionOrderStatus", orderID, 0, 0, status, <<>>, fault)
  \/ /\ uc[p].op = "TransitionOrderStatus" /\ uc[p].pc = "fetched"
     /\ ValidateOrderStatus(uc[p].status) # NoErr
     /\ uc' = [uc EXCEPT ![p].pc = "done", ![p].err = ErrInvalidOrderStatus]
     /\ UNCHANGED <<order, now, call, err, ret, pre, db>>
  \/ \E fault \in BOOLEAN :
       /\ uc[p].op = "TransitionOrderStatus" /\ uc[p].pc = "fetched"
       /\ ValidateOrderStatus(uc[p].status) = NoErr
       /\ Save(p, Dispatch(uc[p].fetched[1], uc[p].status, now).method,
               Dispatch(uc[p].fetched[1], uc[p].status, now).res, fault)
  \/ \E fault \in BOOLEAN :
       /\ uc[p].op = "TransitionOrderStatus"
       /\ Reload(p, ErrFailedToUpdateOrder, fault)

\* DeleteOrder that calls Delete without looking the order up
UCDeleteOrderWithoutLookup(p) ==
  \E orderID \in RequestOrderIDs, fault \in BOOLEAN :
    /\ uc[p].pc \in {"idle", "done"}
    /\ uc' = [uc EXCEPT ![p] =
         [Idle EXCEPT
            !.op = "DeleteOrder", !.pc = "done", !.orderID = orderID,
            !.calls = <<"Delete">>,
            !.err = IF Delete(db, orderID, fault).err = NoErr THEN NoErr
                    ELSE ErrFailedToDeleteOrder]]
    /\ db' = Delete(db, orderID, fault).db
    /\ UNCHANGED <<order, now, call, err, ret, pre>>

UCDeleteOrder(p) ==
  \/ \E orderID \in RequestOrderIDs, fault \in BOOLEAN :
       Begin(p, "DeleteOrder", orderID, 0, 0, "", <<>>, fault)
  \/ \E fault \in BOOLEAN :
       /\ uc[p].op = "DeleteOrder" /\ uc[p].pc = "fetched"
       /\ uc' = [uc EXCEPT
            ![p].pc = "done",
            ![p].calls = @ \o <<"Delete">>,
            ![p].err = IF Delete(db, uc[p].orderID, fault).err = NoErr
                       THEN NoErr ELSE ErrFailedToDeleteOrder]
       /\ db' = Delete(db, uc[p].orderID, fault).db
       /\ UNCHANGED <<order, now, call, err, ret, pre>>

UCListOrders(p) ==
  \E paging \in Pagings, fault \in BOOLEAN, countFault \in BOOLEAN :
    /\ uc[p].pc \in {"idle", "done"}
    /\ fault => ~countFault
    /\ LET page == paging[1]
           pageSize == paging[2]
           n == normalizePagination(page, pageSize)
           listed == List(db, n.pageSize, n.page, fault)
           counted == Count(db, countFault)
       IN uc' = [uc EXCEPT ![p] =
            [Idle EXCEPT
               !.op = "ListOrders", !.pc = "done",
               !.page = page, !.pageSize = pageSize,
               !.calls = IF listed.err = NoErr THEN <<"List", "Count">>
                         ELSE <<"List">>,
               !.err = IF listed.err = NoErr THEN NoErr
                       ELSE ErrFailedToListOrders,
               !.result =
                  IF listed.err # NoErr THEN <<>>
                  ELSE <<[Orders |-> [i \in 1..Len(listed.orders) |->
                                        OrderToResponseDTO(listed.orders[i])],
                          Total |-> IF counted.err = NoErr THEN counted.count
                                    ELSE Len(listed.orders),
                          Page |-> n.page,
                          PageSize |-> n.pageSize]>>]]
    /\ UNCHANGED <<order, now, call, err, ret, pre, db>>

\* One request worker serves the requests one after the other.  The clock
\* stands still: what is checked of the use cases does not depend on the
\* time that passes between two requests.
InitUseCases == Init /\ now = 0

NextUseCases ==
  \/ UCCreateOrder(1)
  \/ UCGetOrder(1)
  \/ UCAddItemToOrder(1)
  \/ UCRemoveItemFromOrder(1)
  \/ UCUpdateItemQuantity(1)
  \/ UCConfirmOrder(1)
  \/ UCCancelOrder(1)
  \/ UCTransitionOrderStatus(1)
  \/ UCDeleteOrder(1)
  \/ UCListOrders(1)

SpecUseCases == InitUseCases /\ [][NextUseCases]_vars

\* ---------------------------------------------------------------- concurrent requests
\* Two request workers serve one request each on the same stored order.  The
\* use cases take no lock and the repository carries no version column, so
\* the steps of the two requests interleave freely; a transaction is one
\* step.

\* the target statuses of the requests that brought the stored order where
\* it is when the two requests arrive
Lifecycle ==
  <<OrderStatusConfirmed, OrderStatusProcessing, OrderStatusShipped,
    OrderStatusDelivered>>

\* the orders table after CreateOrder for customer 1 with one item of
\* product 1 and after the first n status requests of the lifecycle, each
\* served alone at time 0
RECURSIVE TableAfter(_)
TableAfter(n) ==
  IF n = 0
  THEN CreateTx([id \in OrderIDs |-> <<>>],
                ToEntity(1, <<<<1, <<"a">>, <<"n">>, 1, 2>>>>, 0).order[1],
                FALSE).db
  ELSE UpdateTx(TableAfter(n - 1),
                Dispatch(GetByID(TableAfter(n - 1), 1, FALSE).order[1],
                         Lifecycle[n], 0).res.order,
                0, FALSE).db

InitConcurrent ==
  \E customerID \in CustomerIDs, n \in 0..Len(Lifecycle) :
    /\ NewOrder(customerID, 0).err = NoErr
    /\ order = NewOrder(customerID, 0).order[1]
    /\ pre = NewOrder(customerID, 0).order[1]
    /\ now = 0
    /\ call = CallOfNewOrder(customerID)
    /\ err = NoErr
    /\ ret = NewOrder(customerID, 0).order
    /\ db = TableAfter(n)
    /\ uc = [p \in Procs |-> Idle]

\* a worker that has not answered its request yet takes a step of it
NextConcurrent ==
  \E p \in Procs :
    /\ uc[p].pc # "done"
    /\ \/ UCAddItemToOrder(p)
       \/ UCRemoveItemFromOrder(p)
       \/ UCCancelOrder(p)
       \/ UCTransitionOrderStatus(p)
       \/ UCDeleteOrder(p)

SpecConcurrent == InitConcurrent /\ [][NextConcurrent]_vars

\* ---------------------------------------------------------------- listing
\* Orders are created one after the other and then two workers ask for pages
\* of the list; the table does not change once the first page was asked
\* for, so that all pages are pages of the same listing.  The clock stands
\* still: rows of the same created_at are listed by id.
InitListing ==
  \E customerID \in CustomerIDs :
    /\ NewOrder(customerID, 0).err = NoErr
    /\ order = NewOrder(customerID, 0).order[1]
    /\ pre = NewOrder(customerID, 0).order[1]
    /\ now = 0
    /\ call = CallOfNewOrder(customerID)
    /\ err = NoErr
    /\ ret = NewOrder(customerID, 0).order
    /\ db = [id \in ListingIDs |-> <<>>]
    /\ uc = [p \in Procs |-> Idle]

NextListing ==
  \/ /\ \A p \in Procs : uc[p].op # "ListOrders"
     /\ UCCreateOrder(1)
  \/ \E p \in Procs :
       /\ \A q \in Procs : uc[q].op \in {"none", "ListOrders"} \/ uc[q].pc = "done"
       /\ UCListOrders(p)

SpecListing == InitListing /\ [][NextListing]_vars
\* ---------------------------------------------------------------- properties
ItemOps == {"AddItem", "RemoveItem", "UpdateItemQuantity"}

StatusOps ==
  {"ConfirmOrder", "CancelOrder", "TransitionToProcessing",
   "TransitionToShipped", "TransitionToDelivered", "TransitionToRefunded"}

ImmutableStatuses ==
  {OrderStatusCancelled, OrderStatusDelivered, OrderStatusRefunded}

TerminalStatuses == {OrderStatusCancelled, OrderStatusRefunded}

PermittedEdges ==
  {<<OrderStatusPending, OrderStatusConfirmed>>,
   <<OrderStatusConfirmed, OrderStatusProcessing>>,
   <<OrderStatusProcessing, OrderStatusShipped>>,
   <<OrderStatusShipped, OrderStatusDelivered>>,
   <<OrderStatusDelivered, OrderStatusRefunded>>,
   <<OrderStatusPending, OrderStatusCancelled>>,
   <<OrderStatusConfirmed, OrderStatusCancelled>>,
   <<OrderStatusProcessing, OrderStatusCancelled>>}

\* the sum of totalPrice over a list of items
RECURSIVE TotalPriceOf(_)
TotalPriceOf(items) ==
  IF items = <<>> THEN 0 ELSE Head(items).TotalPrice + TotalPriceOf(Tail(items))

\* the positions of the items with a product id
PositionsOf(items, productID) ==
  {i \in 1..Len(items) : items[i].ProductID = productID}

\* C1: in every reachable state the order's totalAmount equals the sum of
\* totalPrice over its current items.
C1_TotalIsSumOfItems == order.TotalAmount = TotalPriceOf(order.Items)

\* two items with different prices are in the order and the quantity of one
\* of them has just been changed
C1_Witness ==
  /\ call.op = "UpdateItemQuantity"
  /\ err = NoErr
  /\ Len(order.Items) = 2
  /\ order.TotalAmount # pre.TotalAmount
  /\ order.TotalAmount > 0

\* C2: in every reachable state no two items of the order have the same
\* productID.
C2_NoDuplicateProduct ==
  \A i, j \in 1..Len(order.Items) :
    order.Items[i].ProductID = order.Items[j].ProductID => i = j

\* AddItem succeeded for a product the order already held, next to another
C2_Witness ==
  /\ call.op = "AddItem"
  /\ err = NoErr
  /\ PositionsOf(pre.Items, call.productID) # {}
  /\ Len(order.Items) = 2

\* C3: every step that changes status is made by a status operation and
\* follows a permitted edge of the state machine; item operations and query
\* helpers never change status.
C3_StatusFollowsEdges ==
  [][order'.Status # order.Status =>
       /\ <<order.Status, order'.Status>> \in PermittedEdges
       /\ call'.op \in StatusOps]_vars

\* a processing order was cancelled
C3_Witness ==
  /\ call.op = "CancelOrder"
  /\ err = NoErr
  /\ pre.Status = OrderStatusProcessing
  /\ order.Status = OrderStatusCancelled

\* C4: a call made on a cancelled or refunded order leaves the status as it
\* is, and when it is one of the six status operations it fails.
C4_TerminalStatusStays ==
  pre.Status \in TerminalStatuses =>
    /\ order.Status = pre.Status
    /\ call.op \in StatusOps => err # NoErr

\* CancelOrder was called on a refunded order
C4_Witness ==
  /\ pre.Status = OrderStatusRefunded
  /\ call.op = "CancelOrder"
  /\ err = ErrCannotCancel

\* C5: AddItem, RemoveItem and UpdateItemQuantity return the
\* order-not-modifiable error exactly when the status is cancelled, delivered
\* or refunded, whatever their arguments.
C5_GateExactlyWhenImmutable ==
  call.op \in ItemOps =>
    (err = ErrNotModifiable <=> pre.Status \in ImmutableStatuses)

\* AddItem with every argument invalid was rejected by the status gate of a
\* delivered order
C5_Witness ==
  /\ call.op = "AddItem"
  /\ pre.Status = OrderStatusDelivered
  /\ call.productID = 0
  /\ call.quantity < 0
  /\ err = ErrNotModifiable

\* C6: an item or status operation that returns an error leaves every field
\* of the order as it was before the call.
C6_FailedCallChangesNothing ==
  (call.op \in ItemOps \cup StatusOps /\ err # NoErr) => order = pre

\* RemoveItem of an absent product failed, later than the last update, on an
\* order that has an item
C6_Witness ==
  /\ call.op = "RemoveItem"
  /\ err = ErrItemNotFoundInOrder
  /\ Len(order.Items) > 0
  /\ now > order.UpdatedAt

\* C7 as stated: on a cancelled, delivered or refunded order every item
\* mutation and every status operation fails and leaves all fields unchanged.
C7_Original ==
  (pre.Status \in ImmutableStatuses /\ call.op \in ItemOps \cup StatusOps) =>
    (err # NoErr /\ order = pre)

\* C7 amended: on a cancelled, delivered or refunded order every item
\* mutation and every status operation fails and leaves all fields unchanged,
\* except TransitionToRefunded on a delivered order, which succeeds and sets
\* the status to refunded.
C7_ImmutableRejectsAllButRefund ==
  (pre.Status \in ImmutableStatuses /\ call.op \in ItemOps \cup StatusOps) =>
    IF pre.Status = OrderStatusDelivered /\ call.op = "TransitionToRefunded"
    THEN err = NoErr /\ order.Status = OrderStatusRefunded
    ELSE err # NoErr /\ order = pre

\* ConfirmOrder was called on a delivered order that has items
C7_Witness ==
  /\ pre.Status = OrderStatusDelivered
  /\ call.op = "ConfirmOrder"
  /\ Len(pre.Items) > 0
  /\ err # NoErr

\* C8: a successful AddItem whose productID is already in the order keeps the
\* number of items, adds the quantity to that item's quantity, sets its
\* totalPrice to the new quantity times its unitPrice and leaves every other
\* item unchanged.
C8_MergeAddsQuantity ==
  (call.op = "AddItem" /\ err = NoErr
   /\ PositionsOf(pre.Items, call.productID) # {}) =>
    /\ Len(order.Items) = Len(pre.Items)
    /\ \A i \in 1..Len(pre.Items) :
         IF pre.Items[i].ProductID = call.productID
         THEN /\ order.Items[i].ProductID = call.productID
              /\ order.Items[i].Quantity =
                   pre.Items[i].Quantity + call.quantity
              /\ order.Items[i].UnitPrice = pre.Items[i].UnitPrice
              /\ order.Items[i].TotalPrice =
                   order.Items[i].Quantity * order.Items[i].UnitPrice
         ELSE order.Items[i] = pre.Items[i]

\* the second of two items was merged with an added quantity of 2
C8_Witness ==
  /\ call.op = "AddItem"
  /\ err = NoErr
  /\ PositionsOf(pre.Items, call.productID) = {2}
  /\ call.quantity = 2
  /\ pre.Items[2].Quantity = 1

\* C9: ConfirmOrder succeeds, setting status to confirmed, exactly when the
\* status is pending and the order has an item; with another status it fails
\* with the only-pending error, also when the order is empty; pending without
\* items fails with the empty-order error.
C9_ConfirmOrderOutcome ==
  call.op = "ConfirmOrder" =>
    /\ err = NoErr <=>
         (pre.Status = OrderStatusPending /\ Len(pre.Items) > 0)
    /\ err = NoErr => order.Status = OrderStatusConfirmed
    /\ pre.Status # OrderStatusPending => err = ErrOnlyPending
    /\ (pre.Status = OrderStatusPending /\ Len(pre.Items) = 0) =>
         err = ErrEmptyOrder

\* ConfirmOrder was called on a cancelled order without items
C9_Witness ==
  /\ call.op = "ConfirmOrder"
  /\ pre.Status = OrderStatusCancelled
  /\ Len(pre.Items) = 0
  /\ err = ErrOnlyPending

\* C10 as stated: ConfirmOrder on an order with zero items fails with the
\* empty-order error whatever the status.
C10_Original ==
  (call.op = "ConfirmOrder" /\ Len(pre.Items) = 0) => err = ErrEmptyOrder

\* C10 amended: ConfirmOrder on an order with zero items always fails and
\* changes nothing; the error is the empty-order error when the status is
\* pending and the only-pending error in each of the six other statuses.
C10_EmptyOrderNeverConfirmed ==
  (call.op = "ConfirmOrder" /\ Len(pre.Items) = 0) =>
    /\ order = pre
    /\ err = IF pre.Status = OrderStatusPending
             THEN ErrEmptyOrder
             ELSE ErrOnlyPending

\* ConfirmOrder was called on a shipped order whose items had been removed
C10_Witness ==
  /\ call.op = "ConfirmOrder"
  /\ Len(pre.Items) = 0
  /\ pre.Status = OrderStatusShipped
  /\ err = ErrOnlyPending

\* C11: CancelOrder succeeds, setting status to cancelled, exactly when the
\* status is pending, confirmed or processing, and fails with the
\* cannot-be-cancelled error in the four other statuses; CanBeCancelled
\* returns true in exactly the statuses where CancelOrder succeeds.
C11_CancelOrderOutcome ==
  /\ call.op = "CancelOrder" =>
       IF pre.Status \in {OrderStatusPending, OrderStatusConfirmed,
                          OrderStatusProcessing}
       THEN err = NoErr /\ order.Status = OrderStatusCancelled
       ELSE err = ErrCannotCancel /\ order.Status = pre.Status
  /\ call.op = "CanBeCancelled" =>
       ret = (pre.Status \in {OrderStatusPending, OrderStatusConfirmed,
                              OrderStatusProcessing})

\* CancelOrder was refused on a shipped order
C11_Witness ==
  /\ call.op = "CancelOrder"
  /\ pre.Status = OrderStatusShipped
  /\ err = ErrCannotCancel

\* the source status, target status and precondition error of the four
\* TransitionTo functions
TransitionTable ==
  {<<"TransitionToProcessing", OrderStatusConfirmed, OrderStatusProcessing,
     ErrOnlyConfirmed>>,
   <<"TransitionToShipped", OrderStatusProcessing, OrderStatusShipped,
     ErrOnlyProcessing>>,
   <<"TransitionToDelivered", OrderStatusShipped, OrderStatusDelivered,
     ErrOnlyShipped>>,
   <<"TransitionToRefunded", OrderStatusDelivered, OrderStatusRefunded,
     ErrOnlyDelivered>>}

\* C12: each TransitionTo function succeeds, setting its target status,
\* exactly when the status is its source status, and otherwise fails with its
\* own precondition error and leaves the status; so no step can be skipped.
\* (That the chain Confirm, Processing, Shipped, Delivered, Refunded runs end
\* to end is the reachability of C12_Witness.)
C12_TransitionOutcome ==
  \A tr \in TransitionTable :
    call.op = tr[1] =>
      IF pre.Status = tr[2]
      THEN err = NoErr /\ order.Status = tr[3]
      ELSE err = tr[4] /\ order.Status = pre.Status

\* the order went through the whole chain: its last step, delivered to
\* refunded, succeeded on an order that holds an item
C12_Witness ==
  /\ call.op = "TransitionToRefunded"
  /\ err = NoErr
  /\ pre.Status = OrderStatusDelivered
  /\ order.Status = OrderStatusRefunded
  /\ Len(order.Items) > 0

\* C13: NewOrder fails, returning no order and the customer-id error, exactly
\* when customerID is 0; for every other customerID it returns an order with
\* that customerID, status pending, no items, totalAmount 0 and createdAt
\* equal to updatedAt.
C13_NewOrderOutcome ==
  call.op = "NewOrder" =>
    IF call.customerID = 0
    THEN err = ErrCustomerID /\ ret = <<>>
    ELSE /\ err = NoErr
         /\ Len(ret) = 1
         /\ ret[1].CustomerID = call.customerID
         /\ ret[1].Status = OrderStatusPending
         /\ ret[1].Items = <<>>
         /\ ret[1].TotalAmount = 0
         /\ ret[1].CreatedAt = ret[1].UpdatedAt

\* NewOrder(0) was refused while the caller held an order with an item
C13_Witness ==
  /\ call.op = "NewOrder"
  /\ call.customerID = 0
  /\ err = ErrCustomerID
  /\ ret = <<>>
  /\ Len(order.Items) > 0

\* a string without a character other than white space
Blank(str) == \A i \in 1..Len(str) : str[i] \in WhiteSpace

\* the first violated rule of the item validation, in its fixed order
FirstViolation(productID, productSKU, productName, quantity, unitPrice) ==
  CASE productID = 0 -> ErrProductID
    [] productID # 0 /\ Blank(productSKU) -> ErrProductSKU
    [] productID # 0 /\ ~Blank(productSKU) /\ Blank(productName) ->
         ErrProductName
    [] productID # 0 /\ ~Blank(productSKU) /\ ~Blank(productName)
       /\ quantity <= 0 -> ErrQuantity
    [] productID # 0 /\ ~Blank(productSKU) /\ ~Blank(productName)
       /\ quantity > 0 /\ unitPrice <= 0 -> ErrUnitPrice
    [] OTHER -> NoErr

\* C14: item validation reports only the first violation in the order
\* productID, SKU, name, quantity, unitPrice; NewOrderItem and AddItem on a
\* mutable order accept and reject the same argument tuples with the same
\* error.
C14_FirstViolationOnly ==
  /\ (call.op = "NewOrderItem" \/ (call.op = "AddItem" /\ ~isImmutable(pre)))
       => err = FirstViolation(call.productID, call.productSKU,
                               call.productName, call.quantity,
                               call.unitPrice)
  /\ ~isImmutable(order) =>
       \A productID \in ValidateProductIDs, productSKU \in ValidateSKUs,
          productName \in ValidateNames, quantity \in ValidateQuantities,
          unitPrice \in ValidateUnitPrices :
         NewOrderItem(productID, productSKU, productName,
                      quantity, unitPrice).err
         = AddItem(order, productID, productSKU, productName,
                   quantity, unitPrice, now).err

\* AddItem on a confirmed order with a blank name, a negative quantity and a
\* zero price reported the name alone
C14_Witness ==
  /\ call.op = "AddItem"
  /\ pre.Status = OrderStatusConfirmed
  /\ call.productID # 0
  /\ ~Blank(call.productSKU)
  /\ Blank(call.productName)
  /\ call.quantity < 0
  /\ call.unitPrice = 0
  /\ err = ErrProductName

\* C15: every item of every reachable order has productID # 0, quantity > 0,
\* unitPrice > 0 and totalPrice = quantity * unitPrice.
C15_ItemsAreValid ==
  \A i \in 1..Len(order.Items) :
    /\ order.Items[i].ProductID # 0
    /\ order.Items[i].Quantity > 0
    /\ order.Items[i].UnitPrice > 0
    /\ order.Items[i].TotalPrice =
         order.Items[i].Quantity * order.Items[i].UnitPrice

\* UpdateItemQuantity with quantity 0 was refused for a product in the order
C15_Witness ==
  /\ call.op = "UpdateItemQuantity"
  /\ call.quantity = 0
  /\ PositionsOf(pre.Items, call.productID) # {}
  /\ err = ErrQuantity

\* C16: a successful UpdateItemQuantity(productID, q) sets the matching
\* item's quantity to q and its totalPrice to q * unitPrice and leaves every
\* other item, the item order and the status unchanged.
C16_UpdateReplacesQuantity ==
  (call.op = "UpdateItemQuantity" /\ err = NoErr) =>
    /\ order.Status = pre.Status
    /\ Len(order.Items) = Len(pre.Items)
    /\ PositionsOf(pre.Items, call.productID) # {}
    /\ \A i \in 1..Len(pre.Items) :
         IF pre.Items[i].ProductID = call.productID
         THEN order.Items[i] =
                [pre.Items[i] EXCEPT
                   !.Quantity = call.quantity,
                   !.TotalPrice = call.quantity * pre.Items[i].UnitPrice]
         ELSE order.Items[i] = pre.Items[i]

\* the quantity of the second of two items went from 2 to 1
C16_Witness ==
  /\ call.op = "UpdateItemQuantity"
  /\ err = NoErr
  /\ PositionsOf(pre.Items, call.productID) = {2}
  /\ pre.Items[2].Quantity = 2
  /\ order.Items[2].Quantity = 1

\* C17: on a mutable order UpdateItemQuantity with quantity <= 0 fails with
\* the invalid-quantity error even when the productID is not in the order,
\* and with quantity > 0 for an absent productID it fails with item-not-found.
C17_UpdateChecksQuantityFirst ==
  (call.op = "UpdateItemQuantity" /\ ~isImmutable(pre)) =>
    /\ call.quantity <= 0 => err = ErrQuantity
    /\ (call.quantity > 0 /\ PositionsOf(pre.Items, call.productID) = {})
         => err = ErrItemNotFoundInOrder

\* quantity 0 for a product that is not among the items of the order
C17_Witness ==
  /\ call.op = "UpdateItemQuantity"
  /\ call.quantity = 0
  /\ call.productID # 0
  /\ Len(pre.Items) > 0
  /\ PositionsOf(pre.Items, call.productID) = {}
  /\ err = ErrQuantity

\* the items without those of a product, in their order
Without(items, productID) ==
  LET Other(item) == item.ProductID # productID
  IN SelectSeq(items, Other)

\* C18: on a mutable order RemoveItem(productID) succeeds exactly when an
\* item with that productID exists; it then removes that item alone and keeps
\* the others in their order; otherwise it fails with item-not-found and the
\* items and the total are unchanged.
C18_RemoveExactlyThatItem ==
  (call.op = "RemoveItem" /\ ~isImmutable(pre)) =>
    IF PositionsOf(pre.Items, call.productID) # {}
    THEN /\ err = NoErr
         /\ Len(order.Items) = Len(pre.Items) - 1
         /\ order.Items = Without(pre.Items, call.productID)
    ELSE /\ err = ErrItemNotFoundInOrder
         /\ order.Items = pre.Items
         /\ order.TotalAmount = pre.TotalAmount

\* the first of two items was removed
C18_Witness ==
  /\ call.op = "RemoveItem"
  /\ err = NoErr
  /\ Len(pre.Items) = 2
  /\ pre.Items[1].ProductID = call.productID
  /\ order.Items = <<pre.Items[2]>>

\* C19: a successful AddItem whose productID is not yet in the order appends
\* one item at the end, with the given quantity and unitPrice and
\* totalPrice = quantity * unitPrice; the earlier items keep content and
\* position.
C19_NewItemIsAppended ==
  (call.op = "AddItem" /\ err = NoErr
   /\ PositionsOf(pre.Items, call.productID) = {}) =>
    /\ Len(order.Items) = Len(pre.Items) + 1
    /\ SubSeq(order.Items, 1, Len(pre.Items)) = pre.Items
    /\ order.Items[Len(order.Items)].ProductID = call.productID
    /\ order.Items[Len(order.Items)].Quantity = call.quantity
    /\ order.Items[Len(order.Items)].UnitPrice = call.unitPrice
    /\ order.Items[Len(order.Items)].TotalPrice =
         call.quantity * call.unitPrice

\* a second product was added to an order that held one item
C19_Witness ==
  /\ call.op = "AddItem"
  /\ err = NoErr
  /\ Len(pre.Items) = 1
  /\ Len(order.Items) = 2
  /\ order.Items[2].ProductID = call.productID

\* C20: with a clock that never goes backwards, a successful item or status
\* operation sets updatedAt to the current time; updatedAt never decreases
\* and is never before createdAt.
C20_UpdatedAtFollowsClock ==
  [][/\ now' >= now
     /\ (now' = now /\ call'.op \in ItemOps \cup StatusOps /\ err' = NoErr)
          => order'.UpdatedAt = now
     /\ order'.UpdatedAt >= order.UpdatedAt
     /\ order.UpdatedAt >= order.CreatedAt
     /\ order'.UpdatedAt >= order'.CreatedAt]_vars

\* an order was moved to processing later than it was created
C20_Witness ==
  /\ call.op = "TransitionToProcessing"
  /\ err = NoErr
  /\ order.UpdatedAt = now
  /\ order.UpdatedAt > order.CreatedAt

\* C21: customerID and createdAt never change after construction; a
\* successful status transition leaves the items and totalAmount as they
\* were, and a successful item mutation leaves the status as it was.
C21_FrameOfMutations ==
  [][/\ order'.CustomerID = order.CustomerID
     /\ order'.CreatedAt = order.CreatedAt
     /\ order'.ID = order.ID
     /\ (call'.op \in StatusOps /\ err' = NoErr) =>
          /\ order'.Items = order.Items
          /\ order'.TotalAmount = order.TotalAmount
     /\ (call'.op \in ItemOps /\ err' = NoErr) =>
          order'.Status = order.Status]_vars

\* an order with items and a positive amount was refunded, later than it
\* was created, and still has its items, its amount and its customer
C21_Witness ==
  /\ call.op = "TransitionToRefunded"
  /\ err = NoErr
  /\ pre.Status = OrderStatusDelivered
  /\ Len(order.Items) > 0
  /\ order.TotalAmount > 0
  /\ order.CreatedAt < order.UpdatedAt
  /\ order.CustomerID = pre.CustomerID

\* the amounts a stored totalAmount is given to see what CalculateTotal does
\* with an order whose amount is not the sum of its items
StaleAmounts == {0, 1, 7}

\* C22: CalculateTotal returns the sum of the items' totalPrice and stores
\* it in totalAmount, changing no other field; calling it again returns the
\* same value and changes nothing; on an order reached through the
\* operations of the aggregate the first call already changes nothing.
C22_CalculateTotalIdempotent ==
  /\ \A a \in StaleAmounts :
       LET o == [order EXCEPT !.TotalAmount = a]
           once == CalculateTotal(o)
           twice == CalculateTotal(once.order)
       IN /\ once.total = TotalPriceOf(o.Items)
          /\ once.order = [o EXCEPT !.TotalAmount = once.total]
          /\ twice.total = once.total
          /\ twice.order = once.order
  /\ CalculateTotal(order).order = order
  /\ call.op = "CalculateTotal" =>
       /\ ret = TotalPriceOf(pre.Items)
       /\ order = pre
       /\ order.TotalAmount = ret

\* CalculateTotal was called on an order of two items with a positive amount
C22_Witness ==
  /\ call.op = "CalculateTotal"
  /\ Len(order.Items) = 2
  /\ ret > 0
  /\ ret = order.TotalAmount

\* the product ids that occur in a list of items
ProductIDsOf(items) == {items[i].ProductID : i \in 1..Len(items)}

\* the sum of quantity over a list of items
RECURSIVE QuantityOf(_)
QuantityOf(items) ==
  IF items = <<>> THEN 0 ELSE Head(items).Quantity + QuantityOf(Tail(items))

\* C23: in every reachable state GetItemCount() is the number of distinct
\* productIDs in the order, GetTotalQuantity() is the sum of the items'
\* quantities, and IsEmpty() holds exactly when GetItemCount() is 0; the
\* calls return these values.
C23_CountsMatchItems ==
  /\ GetItemCount(order) = Cardinality(ProductIDsOf(order.Items))
  /\ GetTotalQuantity(order) = QuantityOf(order.Items)
  /\ IsEmpty(order) <=> GetItemCount(order) = 0
  /\ call.op = "GetItemCount" => ret = Cardinality(ProductIDsOf(order.Items))
  /\ call.op = "GetTotalQuantity" => ret = QuantityOf(order.Items)
  /\ call.op = "IsEmpty" => (ret <=> Cardinality(ProductIDsOf(order.Items)) = 0)

\* GetTotalQuantity was called on an order of two products whose quantities
\* add up to more than the number of items
C23_Witness ==
  /\ call.op = "GetTotalQuantity"
  /\ Len(order.Items) = 2
  /\ ret > 2
  /\ ret = order.Items[1].Quantity + order.Items[2].Quantity

\* the order the table holds now for the request of a worker, as an entity
StoredFor(u) == GetByID(db, u.orderID, FALSE).order

\* the use cases that change an order
MutatingUseCases ==
  {"AddItemToOrder", "RemoveItemFromOrder", "UpdateItemQuantity",
   "ConfirmOrder", "CancelOrder", "TransitionOrderStatus"}

\* the transition function that belongs to a target status
MatchingTransition(o, status, t) ==
  CASE status = "confirmed" -> ConfirmOrder(o, t)
    [] status = "processing" -> TransitionToProcessing(o, t)
    [] status = "shipped" -> TransitionToShipped(o, t)
    [] status = "delivered" -> TransitionToDelivered(o, t)
    [] status = "cancelled" -> CancelOrder(o, t)
    [] status = "refunded" -> TransitionToRefunded(o, t)

\* C24: on a fetched order TransitionOrderStatus rejects a target outside
\* the seven statuses with INVALID_ORDER_STATUS and the target pending with
\* the unsupported-transition error, storing nothing; for each of the six
\* other targets its outcome is that of the matching transition function on
\* the fetched order.
C24_DispatcherOutcome ==
  \A p \in Procs :
    (uc[p].op = "TransitionOrderStatus" /\ uc[p].pc = "done"
     /\ uc[p].fetched # <<>>) =>
      LET u == uc[p]
          rejected == /\ u.saved = <<>>
                      /\ u.result = <<>>
                      /\ u.calls = <<"GetByID">>
                      /\ StoredFor(u) = u.fetched
      IN IF u.status \notin OrderStatus
         THEN u.err = ErrInvalidOrderStatus /\ rejected
         ELSE IF u.status = OrderStatusPending
         THEN u.err = ErrUnsupportedTransition /\ rejected
         ELSE LET r == MatchingTransition(u.fetched[1], u.status, now)
              IN IF r.err # NoErr
                 THEN /\ u.err = r.err
                      /\ u.saved = <<>>
                      /\ u.result = <<>>
                      /\ StoredFor(u) = u.fetched
                 ELSE /\ u.saved = <<r.order>>
                      /\ u.err = NoErr =>
                           /\ StoredFor(u) = <<r.order>>
                           /\ u.result = <<OrderToResponseDTO(r.order)>>
                      /\ u.err # NoErr => u.err = ErrFailedToUpdateOrder

\* a delivered order with items was moved to refunded through the dispatcher
C24_Witness ==
  /\ uc[1].op = "TransitionOrderStatus"
  /\ uc[1].pc = "done"
  /\ uc[1].status = OrderStatusRefunded
  /\ uc[1].err = NoErr
  /\ uc[1].fetched # <<>>
  /\ uc[1].fetched[1].Status = OrderStatusDelivered
  /\ StoredFor(uc[1])[1].Status = OrderStatusRefunded

\* what the aggregate method of a mutating use case returns on the fetched
\* order
AggregateOutcome(u, t) ==
  CASE u.op = "AddItemToOrder" ->
         AddItem(u.fetched[1], u.items[1][1], u.items[1][2], u.items[1][3],
                 u.items[1][4], u.items[1][5], t)
    [] u.op = "RemoveItemFromOrder" -> RemoveItem(u.fetched[1], u.productID, t)
    [] u.op = "UpdateItemQuantity" ->
         UpdateItemQuantity(u.fetched[1], u.productID, u.quantity, t)
    [] u.op = "ConfirmOrder" -> ConfirmOrder(u.fetched[1], t)
    [] u.op = "CancelOrder" -> CancelOrder(u.fetched[1], t)
    [] u.op = "TransitionOrderStatus" ->
         IF u.status \in OrderStatus \ {OrderStatusPending}
         THEN MatchingTransition(u.fetched[1], u.status, t)
         ELSE [order |-> u.fetched[1], err |-> "rejected"]

\* C25: in every mutating use case Update is invoked only after the
\* aggregate operation has succeeded; when the aggregate operation fails the
\* use case returns that error with no result, Update is not called and the
\* stored order is unchanged.
C25_UpdateOnlyAfterSuccess ==
  \A p \in Procs :
    (uc[p].op \in MutatingUseCases /\ uc[p].pc \in {"written", "done"}
     /\ uc[p].fetched # <<>>) =>
      LET u == uc[p]
          r == AggregateOutcome(u, now)
          updated == \E i \in 1..Len(u.calls) : u.calls[i] = "Update"
      IN /\ updated <=> r.err = NoErr
         /\ updated => /\ Len(u.calls) = 3
                       /\ u.calls[1] = "GetByID"
                       /\ u.calls[3] = "Update"
                       /\ u.saved = <<r.order>>
         /\ r.err # NoErr =>
              /\ u.pc = "done"
              /\ u.err # NoErr
              /\ r.err # "rejected" => u.err = r.err
              /\ u.result = <<>>
              /\ u.saved = <<>>
              /\ StoredFor(u) = u.fetched

\* confirming a stored order without items failed and stored nothing
C25_Witness ==
  /\ uc[1].op = "ConfirmOrder"
  /\ uc[1].pc = "done"
  /\ uc[1].fetched # <<>>
  /\ uc[1].err = ErrEmptyOrder
  /\ uc[1].calls = <<"GetByID", "ConfirmOrder">>
  /\ StoredFor(uc[1]) = uc[1].fetched

\* C26: a GetByID failure is returned as it is and then neither the
\* aggregate operation nor Update runs; a Create failure is reported as
\* FAILED_TO_CREATE_ORDER and an Update failure as FAILED_TO_UPDATE_ORDER.
C26_RepositoryErrors ==
  \A p \in Procs :
    LET u == uc[p]
    IN /\ (u.pc = "done" /\ u.calls = <<"GetByID">> /\ u.fetched = <<>>) =>
            /\ u.err \in {ErrOrderNotFound, ErrDatabase}
            /\ u.err = ErrOrderNotFound => ~Live(db, u.orderID)
            /\ Live(db, u.orderID) => u.err = ErrDatabase
            /\ u.saved = <<>>
            /\ u.result = <<>>
       /\ (u.pc = "done" /\ u.op # "GetOrder" /\ u.fetched = <<>>
           /\ u.op \notin {"CreateOrder", "ListOrders", "none"}) =>
            u.calls = <<"GetByID">>
       /\ (u.pc = "done" /\ u.op = "CreateOrder" /\ u.calls = <<"Create">>
           /\ u.result = <<>>) =>
            u.err = ErrFailedToCreateOrder
       /\ (u.pc = "done" /\ u.op \in MutatingUseCases /\ u.saved # <<>>
           /\ u.result = <<>>) =>
            u.err = ErrFailedToUpdateOrder

\* the transaction of Update failed on a database error after AddItem had
\* succeeded
C26_Witness ==
  /\ uc[1].op = "AddItemToOrder"
  /\ uc[1].pc = "done"
  /\ uc[1].calls = <<"GetByID", "AddItem", "Update">>
  /\ uc[1].err = ErrFailedToUpdateOrder
  /\ StoredFor(uc[1]) = uc[1].fetched

\* C27: DeleteOrder looks the order up first: when the lookup fails (no such
\* order is stored) it returns that error, order-not-found, and does not
\* invoke Delete; when the lookup succeeds it invokes Delete once and
\* returns success if Delete succeeds and FAILED_TO_DELETE_ORDER otherwise.
C27_DeleteOrderOutcome ==
  \A p \in Procs :
    (uc[p].op = "DeleteOrder" /\ uc[p].pc = "done") =>
      LET u == uc[p]
      IN IF u.fetched = <<>>
         THEN /\ u.calls = <<"GetByID">>
              /\ u.err \in {ErrOrderNotFound, ErrDatabase}
              /\ u.err = ErrOrderNotFound => ~Live(db, u.orderID)
              /\ Live(db, u.orderID) => u.err = ErrDatabase
         ELSE /\ u.calls = <<"GetByID", "Delete">>
              /\ u.err \in {NoErr, ErrFailedToDeleteOrder}
              /\ u.err = NoErr <=> StoredFor(u) = <<>>

\* an order that had been deleted was asked to be deleted again
C27_Witness ==
  /\ uc[1].op = "DeleteOrder"
  /\ uc[1].pc = "done"
  /\ uc[1].err = ErrOrderNotFound
  /\ uc[1].calls = <<"GetByID">>
  /\ db[1] # <<>>
  /\ db[1][1].Deleted

\* C28: normalizePagination gives a page >= 0 and a page size in 1..100: a
\* negative page becomes 0, a page size below 1 or above 100 becomes 10,
\* values in range stay, normalizing twice is normalizing once; the list
\* response reports the normalized values.
C28_PaginationNormalized ==
  \A p \in Procs :
    uc[p].op = "ListOrders" =>
      LET u == uc[p]
          n == normalizePagination(u.page, u.pageSize)
      IN /\ n.page >= 0
         /\ n.pageSize >= 1 /\ n.pageSize <= 100
         /\ u.page < 0 => n.page = 0
         /\ u.page >= 0 => n.page = u.page
         /\ (u.pageSize < 1 \/ u.pageSize > 100) => n.pageSize = 10
         /\ (u.pageSize >= 1 /\ u.pageSize <= 100) => n.pageSize = u.pageSize
         /\ normalizePagination(n.page, n.pageSize) = n
         /\ u.result # <<>> =>
              /\ u.result[1].Page = (IF u.page < 0 THEN 0 ELSE u.page)
              /\ u.result[1].PageSize =
                   (IF u.pageSize < 1 \/ u.pageSize > 100 THEN 10
                    ELSE u.pageSize)

\* a list request with a page size of 101 was answered with page size 10
C28_Witness ==
  /\ uc[1].op = "ListOrders"
  /\ uc[1].pageSize = 101
  /\ uc[1].result # <<>>
  /\ uc[1].result[1].PageSize = 10
  /\ Len(uc[1].result[1].Orders) = 1

\* C29: a confirm request for a stored order without items is answered
\* with HTTP status 400 and the error code EMPTY_ORDER.
C29_EmptyConfirmIsBadRequest ==
  \A p \in Procs :
    (uc[p].op = "ConfirmOrder" /\ uc[p].pc = "done" /\ uc[p].fetched # <<>>
     /\ IsEmpty(uc[p].fetched[1])) =>
      handleError(uc[p].err) = [status |-> 400, code |-> DomainErrEmptyOrder]

\* the entities a worker holds: the one it fetched and the one it saved
EntitiesOf(u) ==
  {u.fetched[i] : i \in 1..Len(u.fetched)}
    \cup {u.saved[i] : i \in 1..Len(u.saved)}

\* C30: toEntity(toModel(o)) gives back the id, the customer id, the items
\* in their order with all their fields, the amount, the status and the two
\* timestamps of o, also for an order without items.
C30_ModelRoundTrip ==
  \A p \in Procs : \A o \in EntitiesOf(uc[p]) :
    \A created \in 0..MaxTime, updated \in 0..MaxTime :
      LET e == [o EXCEPT !.CreatedAt = created, !.UpdatedAt = updated]
      IN /\ toEntity(toModel(e)) = e
         /\ toModel(e).Items =
              [i \in 1..Len(e.Items) |->
                 [ID |-> e.Items[i].ID, OrderID |-> e.ID,
                  ProductID |-> e.Items[i].ProductID,
                  ProductSKU |-> e.Items[i].ProductSKU,
                  ProductName |-> e.Items[i].ProductName,
                  Quantity |-> e.Items[i].Quantity,
                  UnitPrice |-> e.Items[i].UnitPrice,
                  TotalPrice |-> e.Items[i].TotalPrice]]

\* a worker fetched a stored order without items and saved it with a first
\* item
C30_Witness ==
  /\ uc[1].fetched # <<>>
  /\ uc[1].fetched[1].ID = 1
  /\ uc[1].fetched[1].Items = <<>>
  /\ uc[1].saved # <<>>
  /\ Len(uc[1].saved[1].Items) = 1
  /\ toModel(uc[1].saved[1]).Items[1].OrderID = 1

\* the plain errors of the aggregate, of the use cases and of the database
PlainErrors ==
  {ErrCustomerID, ErrNotModifiable, ErrProductID, ErrProductSKU,
   ErrProductName, ErrQuantity, ErrUnitPrice, ErrItemNotFoundInOrder,
   ErrItemNotFound, ErrOnlyPending, ErrEmptyOrder, ErrCannotCancel,
   ErrOnlyConfirmed, ErrOnlyProcessing, ErrOnlyShipped, ErrOnlyDelivered,
   ErrUnsupportedTransition, ErrInvalidStatusValue, ErrDatabase}

\* the answer the error mapping is to give for an error
MappedAs(e, response) ==
  /\ e = "ORDER_NOT_FOUND" =>
       response = [status |-> 404, code |-> "ORDER_NOT_FOUND"]
  /\ e = "ORDER_ALREADY_EXISTS" =>
       response = [status |-> 409, code |-> "ORDER_ALREADY_EXISTS"]
  /\ (e \in DomainErrors \ {"ORDER_NOT_FOUND", "ORDER_ALREADY_EXISTS"}) =>
       response = [status |-> 400, code |-> e]
  /\ e \notin DomainErrors =>
       response = [status |-> 500, code |-> "INTERNAL_ERROR"]

\* C33: handleError sends ORDER_NOT_FOUND to 404, ORDER_ALREADY_EXISTS to
\* 409, every other domain error to 400 with its own code and every error
\* that is not a domain error to 500 INTERNAL_ERROR; so is the error of
\* every use case that failed answered.
C33_ErrorMapping ==
  /\ \A e \in DomainErrors \cup PlainErrors : MappedAs(e, handleError(e))
  /\ \A p \in Procs :
       (uc[p].pc = "done" /\ uc[p].err # NoErr) =>
         /\ uc[p].err \in DomainErrors \cup PlainErrors
         /\ MappedAs(uc[p].err, handleError(uc[p].err))

\* a request for an order that is not stored was answered with 404
C33_Witness ==
  /\ uc[1].op = "GetOrder"
  /\ uc[1].pc = "done"
  /\ uc[1].err = ErrOrderNotFound
  /\ ~Live(db, uc[1].orderID)
  /\ handleError(uc[1].err) = [status |-> 404, code |-> "ORDER_NOT_FOUND"]

\* the least position of a product among the items of a request
FirstRequestOf(items, productID) ==
  CHOOSE i \in 1..Len(items) :
    /\ items[i][1] = productID
    /\ \A j \in 1..(i - 1) : items[j][1] # productID

\* the quantity a request asks of a product, over all its items
RECURSIVE RequestedQuantity(_, _)
RequestedQuantity(items, productID) ==
  IF items = <<>> THEN 0
  ELSE (IF Head(items)[1] = productID THEN Head(items)[4] ELSE 0)
       + RequestedQuantity(Tail(items), productID)

ConfirmedStatuses ==
  {OrderStatusConfirmed, OrderStatusProcessing, OrderStatusShipped,
   OrderStatusDelivered, OrderStatusRefunded}

\* C34 as stated: every order in status confirmed, processing, shipped,
\* delivered or refunded contains at least one item.
C34_Original ==
  order.Status \in ConfirmedStatuses => Len(order.Items) >= 1

\* C34 amended: an order has at least one item when ConfirmOrder moves it to
\* confirmed, and in confirmed, processing, shipped, delivered and refunded
\* it loses its last item only through a RemoveItem call made while it is
\* confirmed, processing or shipped; such a call succeeds, so these five
\* statuses can hold an order without items.
C34_EmptiedOnlyByRemoveItem ==
  /\ (call.op = "ConfirmOrder" /\ err = NoErr) =>
       (order.Status = OrderStatusConfirmed /\ Len(order.Items) >= 1)
  /\ (/\ order.Status \in ConfirmedStatuses
      /\ IsEmpty(order)
      /\ ~(pre.Status \in ConfirmedStatuses /\ IsEmpty(pre))) =>
       /\ call.op = "RemoveItem"
       /\ err = NoErr
       /\ pre.Status \in {OrderStatusConfirmed, OrderStatusProcessing,
                          OrderStatusShipped}
       /\ order.Status = pre.Status
       /\ Len(pre.Items) = 1
  /\ (call.op = "RemoveItem" /\ Len(pre.Items) = 1
      /\ pre.Items[1].ProductID = call.productID
      /\ pre.Status \in {OrderStatusConfirmed, OrderStatusProcessing,
                         OrderStatusShipped}) =>
       (err = NoErr /\ IsEmpty(order))

\* the only item of a shipped order was removed
C34_Witness ==
  /\ call.op = "RemoveItem"
  /\ err = NoErr
  /\ pre.Status = OrderStatusShipped
  /\ Len(pre.Items) = 1
  /\ order.Status = OrderStatusShipped
  /\ IsEmpty(order)

\* the greatest number of status changes after which an order can be in a
\* status
Depth(status) ==
  CASE status = OrderStatusPending -> 0
    [] status = OrderStatusConfirmed -> 1
    [] status = OrderStatusProcessing -> 2
    [] status = OrderStatusShipped -> 3
    [] status = OrderStatusCancelled -> 3
    [] status = OrderStatusDelivered -> 4
    [] status = OrderStatusRefunded -> 5

\* C36: every status change of an order moves it strictly forward in
\* pending, confirmed, processing, shipped, delivered, refunded, or to
\* cancelled from one of the first three, so no status is entered again
\* after it was left and an order changes status at most five times.
C36_StatusMovesForward ==
  /\ order.Status \in OrderStatus
  /\ Depth(order.Status) <= 5
  /\ Depth(pre.Status) <= Depth(order.Status)
  /\ order.Status # pre.Status =>
       /\ err = NoErr
       /\ call.op \in StatusOps
       /\ Depth(pre.Status) < Depth(order.Status)
       /\ order.Status = OrderStatusCancelled =>
            pre.Status \in {OrderStatusPending, OrderStatusConfirmed,
                            OrderStatusProcessing}
       /\ order.Status # OrderStatusCancelled =>
            /\ pre.Status # OrderStatusCancelled
            /\ Depth(order.Status) = Depth(pre.Status) + 1

\* the fifth status change of an order: a delivered order was refunded
C36_Witness ==
  /\ call.op = "TransitionToRefunded"
  /\ err = NoErr
  /\ pre.Status = OrderStatusDelivered
  /\ order.Status = OrderStatusRefunded
  /\ Depth(order.Status) = 5

\* C37: AddItem on a productID the order has keeps the stored unitPrice, SKU
\* and name of that item whatever the call gives for them, and validates
\* the call's values all the same: a blank SKU, a blank name or a unitPrice
\* <= 0 makes the call fail with the error of that argument and change
\* nothing.
C37_MergeValidatesIgnoredValues ==
  (/\ call.op = "AddItem"
   /\ ~isImmutable(pre)
   /\ PositionsOf(pre.Items, call.productID) # {}) =>
    /\ Blank(call.productSKU) => err = ErrProductSKU
    /\ (~Blank(call.productSKU) /\ Blank(call.productName)) =>
         err = ErrProductName
    /\ (~Blank(call.productSKU) /\ ~Blank(call.productName)
        /\ call.quantity > 0 /\ call.unitPrice <= 0) => err = ErrUnitPrice
    /\ err # NoErr => order = pre
    /\ err = NoErr =>
         \A i \in PositionsOf(pre.Items, call.productID) :
           /\ order.Items[i].UnitPrice = pre.Items[i].UnitPrice
           /\ order.Items[i].ProductSKU = pre.Items[i].ProductSKU
           /\ order.Items[i].ProductName = pre.Items[i].ProductName
           /\ order.Items[i].TotalPrice =
                (pre.Items[i].Quantity + call.quantity) * pre.Items[i].UnitPrice

\* an order that has product 2 at a price above 0 was asked to add product 2
\* at the price 0
C37_Witness ==
  /\ call.op = "AddItem"
  /\ ~isImmutable(pre)
  /\ PositionsOf(pre.Items, call.productID) # {}
  /\ call.unitPrice = 0
  /\ err = ErrUnitPrice
  /\ order = pre

\* the quantity an order holds of a product
QuantityIn(o, productID) ==
  IF IndexOf(o.Items, productID) = 0 THEN 0
  ELSE o.Items[IndexOf(o.Items, productID)].Quantity

\* C31: when two AddItemToOrder requests for different products interleave
\* on the same order and both return success, the stored order holds the
\* effect of both: of each product the quantity the request found plus the
\* quantity it added.
C31_NoLostUpdate ==
  (/\ \A p \in Procs : /\ uc[p].op = "AddItemToOrder"
                       /\ uc[p].pc = "done"
                       /\ uc[p].err = NoErr
                       /\ uc[p].orderID = 1
   /\ uc[1].productID # uc[2].productID) =>
    /\ Live(db, 1)
    /\ \A p \in Procs :
         QuantityIn(toEntity(db[1][1]), uc[p].productID) =
           QuantityIn(uc[p].fetched[1], uc[p].productID) + uc[p].quantity

\* C35: while requests on the same order interleave, every change of the
\* stored status of an order follows a permitted edge of the state machine;
\* a stored shipped, delivered or refunded is never overwritten by cancelled
\* or by an earlier status.
C35_StoredStatusFollowsEdges ==
  [][\A id \in OrderIDs :
       (db[id] # <<>> /\ db'[id] # <<>>
        /\ db'[id][1].Status # db[id][1].Status) =>
         <<db[id][1].Status, db'[id][1].Status>> \in PermittedEdges]_vars

\* C38: in every state of the table, also while requests on the same order
\* interleave, the stored total_amount of an order is the sum of the
\* total_price of its stored item rows.
C38_StoredTotalIsSumOfItems ==
  \A id \in OrderIDs :
    db[id] # <<>> => db[id][1].TotalAmount = TotalPriceOf(db[id][1].Items)

\* the ids of the orders of a list response, in their order
ListedIDs(u) ==
  [i \in 1..Len(u.result[1].Orders) |-> u.result[1].Orders[i].ID]

\* the ids of the window of at most size rows that starts at an offset of
\* the listing of the live rows
WindowOf(d, offset, size) ==
  LET rows == SortedLive(d, {id \in DOMAIN d : Live(d, id)})
      last == IF offset + size < Len(rows) THEN offset + size ELSE Len(rows)
  IN [i \in 1..(IF last > offset THEN last - offset ELSE 0) |->
        rows[offset + i]]

\* C39: a list request for the normalized page p and page size s is answered
\* with the window of at most s orders that starts at offset p * s of the
\* listing, so two different pages asked for with the same page size have no
\* order in common.
C39_PagesAreDisjointWindows ==
  /\ \A p \in Procs :
       (uc[p].op = "ListOrders" /\ uc[p].err = NoErr) =>
         LET n == normalizePagination(uc[p].page, uc[p].pageSize)
         IN ListedIDs(uc[p]) = WindowOf(db, n.page * n.pageSize, n.pageSize)
  /\ (/\ \A p \in Procs : uc[p].op = "ListOrders" /\ uc[p].err = NoErr
      /\ normalizePagination(uc[1].page, uc[1].pageSize).pageSize =
           normalizePagination(uc[2].page, uc[2].pageSize).pageSize
      /\ normalizePagination(uc[1].page, uc[1].pageSize).page #
           normalizePagination(uc[2].page, uc[2].pageSize).page) =>
       {ListedIDs(uc[1])[i] : i \in 1..Len(ListedIDs(uc[1]))}
         \cap {ListedIDs(uc[2])[i] : i \in 1..Len(ListedIDs(uc[2]))} = {}

====
